---------------------------- MODULE Spec2Model ----------------------------
(***************************************************************************)
(* A model of the simulation core of 10xCloudChampion: the event queue     *)
(* (central/queue.rs), the world state (central/state.rs) and the game     *)
(* engine (central/engine.rs).                                             *)
(*                                                                         *)
(* Units.  Money is an i64 count of millicents in the source; it is kept   *)
(* here as a normalised pair [d |-> dollars, m |-> millicents], 0 <= m <   *)
(* 100000, with floor semantics for negative amounts, because the costs of *)
(* the source's tables exceed the 32-bit integers of the model checker.    *)
(* The pair denotes d * 100000 + m millicents exactly.  Memory is an i64   *)
(* count of bytes in the source; every memory amount the engine computes   *)
(* is a multiple of 1000 bytes, and the model counts kilobytes (1000 B).   *)
(* Time is the source's u64 count of time units.                           *)
(***************************************************************************)
EXTENDS Integers, Sequences, FiniteSets, TLC

VARIABLES
    state,     \* the WorldState (central/state.rs)
    engine,    \* the GameEngine: event queue and shared routing wait queue
    upd,       \* the position of an update(time) call in progress
    panicked,  \* TRUE once the program has aborted on a Rust panic
    ret,       \* the value returned by the last call of the queue API
    hist,      \* history variables: what has happened so far in the run
    scn        \* the scenario (initial world and input sets) of this run

vars == <<state, engine, upd, panicked, ret, hist, scn>>

(***************************************************************************)
(* Bounds of the model (not program constants).                            *)
(***************************************************************************)
\* the largest timestamp pushed directly onto the queue (queue scenario)
MaxStamp == 3
\* the number of pushes in the queue scenario
MaxPush == 4

\* how many purchases a run of the shop scenario follows
MaxActs == 3

\* the application's tick (lib.rs), and how long a run of scenario A is followed
TIME_UNITS_PER_CYCLE == 500
SpanA == 26000

\* how many clicks a run follows, and for how long the other scenarios run
MaxClicks == 3
SpanFifo == 17500
SpanPair == 8000
SpanSweep == 320000
SpanPower == 8000
SpanLoad == 3000
SpanSpam == 3000
SpanTrial == 70000
SpanDos == 12500
SpanExpand == 1000
SpanBill == 1500
SpanGate == 2800
SpanReuse == 1500
SpanReroute == 1500
SpanClosed == 12500
SpanClients == 2000
SpanStale == 1500

\* how many redemptions of a caching card a run follows
MaxCaching == 257

\* Option::None for a u32 (cohort ids and node ids are unsigned)
None == -1

Min(a, b) == IF a < b THEN a ELSE b
Max(a, b) == IF a > b THEN a ELSE b

(***************************************************************************)
(* Money (central/stuff.rs)                                                *)
(***************************************************************************)
MoneyNorm(d, m) == [d |-> d + (m \div 100000), m |-> m % 100000]
millicents(n) == MoneyNorm(0, n)
dec_cents(n) == MoneyNorm(0, n * 100)
cents(n) == MoneyNorm(n \div 100, (n % 100) * 1000)
dollars(n) == [d |-> n, m |-> 0]
MoneyZero == dollars(0)
MoneyPlus(a, b) == MoneyNorm(a.d + b.d, a.m + b.m)
MoneySub(a, b) == MoneyNorm(a.d - b.d, a.m - b.m)
MoneyLt(a, b) == a.d < b.d \/ (a.d = b.d /\ a.m < b.m)
MoneyGe(a, b) == ~MoneyLt(a, b)
MoneyGt(a, b) == MoneyLt(b, a)
MoneyMax(a, b) == IF MoneyLt(a, b) THEN b ELSE a
\* Money * i32
MoneyMulI32(a, k) == MoneyNorm(a.d * k, a.m * k)

(***************************************************************************)
(* The event queue (central/queue.rs)                                      *)
(***************************************************************************)
Services == {"Base", "Super", "Epic", "Awesome"}

new_arrived(timestamp, user_spec_id, amount, service, bad) ==
    [timestamp |-> timestamp, user_spec_id |-> user_spec_id, amount |-> amount,
     service |-> service, bad |-> bad, kind |-> "RequestArrived",
     node_num |-> None, ram_required |-> 0]

into_routed(event, duration, node_num) ==
    [event EXCEPT !.timestamp = event.timestamp + duration,
                  !.kind = "RequestRouted", !.node_num = node_num]

\* a plausible slip: the completion is stamped with the time of routing
into_processed_nodelay(event, node_num, duration, ram_required) ==
    [event EXCEPT !.kind = "RequestProcessed", !.node_num = node_num,
                  !.ram_required = ram_required]

into_processed(event, node_num, duration, ram_required) ==
    [event EXCEPT !.timestamp = event.timestamp + duration,
                  !.kind = "RequestProcessed", !.node_num = node_num,
                  !.ram_required = ram_required]

InsertAt(q, k, e) == SubSeq(q, 1, k) \o <<e>> \o SubSeq(q, k + 1, Len(q))

\* VecDeque::binary_search_by on the timestamps: Ok(i) for a position holding
\* an equal timestamp (if there are several, which one is returned is left
\* open by the standard library and varies between its versions), otherwise
\* Err(i) for the position that keeps the sequence sorted.  Positions are
\* 0-based as in the source.
binary_search(q, timestamp) ==
    LET matches == {i \in 0..(Len(q) - 1) : q[i + 1].timestamp = timestamp}
    IN  IF matches # {}
        THEN matches
        ELSE {Cardinality({i \in 1..Len(q) : q[i].timestamp < timestamp})}

\* a plausible slip: append without searching for the sorted position
push_unsorted(q, event) == {Append(q, event)}

\* RequestEventQueue::push: the queues that may result
push(q, event) ==
    {InsertAt(q, index, event) : index \in binary_search(q, event.timestamp)}

next_event_time(q) == IF q = <<>> THEN None ELSE q[1].timestamp

\* the None of an Option<RequestEvent>
NoEvent == [kind |-> "none"]

\* RequestEventQueue::pop: <<the event or None, the queue left>>
pop(q) == IF q = <<>> THEN <<NoEvent, q>> ELSE <<Head(q), Tail(q)>>


(***************************************************************************)
(* Static tables (central/engine.rs)                                       *)
(***************************************************************************)
\* (count, base speed, cost), the first entry being the initial level
CPU_LEVELS == <<
    [num_cores |-> 1,  cpu_speed |-> 2, cost |-> dollars(0)],
    [num_cores |-> 2,  cpu_speed |-> 2, cost |-> dollars(60)],
    [num_cores |-> 3,  cpu_speed |-> 2, cost |-> dollars(160)],
    [num_cores |-> 4,  cpu_speed |-> 3, cost |-> dollars(360)],
    [num_cores |-> 6,  cpu_speed |-> 3, cost |-> dollars(850)],
    [num_cores |-> 8,  cpu_speed |-> 4, cost |-> dollars(1980)],
    [num_cores |-> 16, cpu_speed |-> 4, cost |-> dollars(3000)],
    [num_cores |-> 24, cpu_speed |-> 5, cost |-> dollars(5400)],
    [num_cores |-> 32, cpu_speed |-> 6, cost |-> dollars(8200)],
    [num_cores |-> 48, cpu_speed |-> 7, cost |-> dollars(14000)],
    [num_cores |-> 64, cpu_speed |-> 8, cost |-> dollars(25000)] >>

\* Memory constructors, in kilobytes
mem_kb(n) == n
mem_mb(n) == n * 1000
mem_gb(n) == n * 1000000

\* (capacity, cost), the first entry being the initial level
RAM_LEVELS == <<
    [ram_capacity |-> mem_mb(256), cost |-> dollars(0)],
    [ram_capacity |-> mem_mb(512), cost |-> dollars(40)],
    [ram_capacity |-> mem_gb(1),   cost |-> dollars(60)],
    [ram_capacity |-> mem_gb(2),   cost |-> dollars(100)],
    [ram_capacity |-> mem_gb(4),   cost |-> dollars(180)],
    [ram_capacity |-> mem_gb(8),   cost |-> dollars(320)],
    [ram_capacity |-> mem_gb(16),  cost |-> dollars(660)],
    [ram_capacity |-> mem_gb(24),  cost |-> dollars(900)],
    [ram_capacity |-> mem_gb(32),  cost |-> dollars(1200)],
    [ram_capacity |-> mem_gb(48),  cost |-> dollars(2000)],
    [ram_capacity |-> mem_gb(64),  cost |-> dollars(3600)] >>

BARE_NODE_COST == dollars(2000)
UPGRADED_NODE_COST == MoneyPlus(MoneyPlus(BARE_NODE_COST, dollars(59000)), dollars(9000))
UPGRADED_RACK_COST ==
    MoneyPlus(MoneyPlus(MoneyPlus(UPGRADED_NODE_COST, UPGRADED_NODE_COST),
                        UPGRADED_NODE_COST), UPGRADED_NODE_COST)

\* (memory reserve multiplier, cache hit rate in eighths)
CACHE_LEVELS == <<
    [reserve |-> 1,  hit8 |-> 0],
    [reserve |-> 4,  hit8 |-> 2],
    [reserve |-> 16, hit8 |-> 4],
    [reserve |-> 18, hit8 |-> 6],
    [reserve |-> 20, hit8 |-> 7] >>

\* the memory modifier of each software level, in 32nds (1, 0.96875, 0.75,
\* 0.625, 0.125); the first component of the source's pairs is not read by
\* the engine
SOFTWARE_LEVELS == << 32, 31, 24, 20, 4 >>

\* the electricity cost per Wattever, in millicents
ELECTRICITY_COST_LEVELS == << 32000, 29000, 25000, 18000, 5000, 500, 0 >>

BASE_MEMORY_RESERVE == mem_mb(32)
SUPER_MEMORY_RESERVE == mem_mb(256)
EPIC_MEMORY_RESERVE == mem_gb(2)
AWESOME_MEMORY_RESERVE == mem_gb(16)

\* demand is an f32 in the source; every value it takes is a multiple of
\* 0.25, and the model counts quarters
DEMAND_DOS_THRESHOLD == 10000

INCREASE_DEMAND_PERIOD == 150000
ELECTRICITY_BILL_PERIOD == 2500000
MAJOR_UPDATE_GATE == 2500
MAJOR_UPDATE_PERIOD == 3200
GAME_SAVE_PERIOD == 360000
TIMEOUT_CLEANUP_PERIOD == 40000
REQUEST_TIMEOUT == 240000
WAITING_QUEUE_LIMIT == 2000
RACK_CAPACITY == 4

(***************************************************************************)
(* ServiceKind (central/stuff.rs)                                          *)
(***************************************************************************)
\* memory required per individual operation of a tier
mem_required(service) ==
    CASE service = "Base" -> mem_kb(512)
      [] service = "Super" -> mem_kb(768)
      [] service = "Epic" -> mem_mb(1)
      [] service = "Awesome" -> mem_mb(4)

(***************************************************************************)
(* CloudNode (central/engine.rs)                                           *)
(***************************************************************************)
CloudNode_new(id) ==
    [id |-> id, cpu_level |-> 0, ram_level |-> 0,
     num_cores |-> CPU_LEVELS[1].num_cores,
     ram_capacity |-> RAM_LEVELS[1].ram_capacity,
     cpu_speed |-> CPU_LEVELS[1].cpu_speed,
     processing |-> 0, ram_usage |-> 0, ram_reserved |-> 0, requests |-> <<>>]

new_fully_upgraded(id) ==
    [id |-> id, cpu_level |-> Len(CPU_LEVELS) - 1, ram_level |-> Len(RAM_LEVELS) - 1,
     num_cores |-> CPU_LEVELS[Len(CPU_LEVELS)].num_cores,
     ram_capacity |-> RAM_LEVELS[Len(RAM_LEVELS)].ram_capacity,
     cpu_speed |-> CPU_LEVELS[Len(CPU_LEVELS)].cpu_speed,
     processing |-> 0, ram_usage |-> 0, ram_reserved |-> 0, requests |-> <<>>]

new_fully_upgraded_rack(id) ==
    [id |-> id, cpu_level |-> Len(CPU_LEVELS) - 1, ram_level |-> Len(RAM_LEVELS) - 1,
     num_cores |-> CPU_LEVELS[Len(CPU_LEVELS)].num_cores * RACK_CAPACITY,
     ram_capacity |-> RAM_LEVELS[Len(RAM_LEVELS)].ram_capacity * RACK_CAPACITY,
     cpu_speed |-> CPU_LEVELS[Len(CPU_LEVELS)].cpu_speed,
     processing |-> 0, ram_usage |-> 0, ram_reserved |-> 0, requests |-> <<>>]

service_factor(service) ==
    CASE service = "Base" -> 1
      [] service = "Super" -> 4
      [] service = "Epic" -> 16
      [] service = "Awesome" -> 64

time_per_request(node, service, software_level) ==
    (2500 * service_factor(service)) \div node.cpu_speed
        + (4500 \div (software_level * software_level + 1))

time_per_request_routing(node) == 256 \div node.cpu_speed

release_reserved(node) ==
    [node EXCEPT !.ram_usage = node.ram_usage - node.ram_reserved,
                 !.ram_reserved = 0]

\* a plausible slip: the new reserve is recorded but the old one is not
\* released from the usage first
reserve_for_noreclaim(node, memory) ==
    LET available == node.ram_capacity + node.ram_reserved - node.ram_usage
    IN  IF available < memory
        THEN [ok |-> FALSE, node |-> node]
        ELSE IF node.ram_reserved < memory
             THEN [ok |-> TRUE,
                   node |-> [node EXCEPT !.ram_reserved = memory,
                                         !.ram_usage = node.ram_usage + memory]]
             ELSE [ok |-> TRUE, node |-> node]

\* CloudNode::reserve_for: [ok: the bool returned, node: the node afterwards]
reserve_for(node, memory) ==
    LET available == node.ram_capacity + node.ram_reserved - node.ram_usage
    IN  IF available < memory
        THEN [ok |-> FALSE, node |-> node]
        ELSE IF node.ram_reserved < memory
             THEN LET released == release_reserved(node)
                  IN  [ok |-> TRUE,
                       node |-> [released EXCEPT !.ram_reserved = memory,
                                                 !.ram_usage = released.ram_usage + memory]]
             ELSE [ok |-> TRUE, node |-> node]

release_excess_reserve(node, maximum_reserve) ==
    IF node.ram_reserved > maximum_reserve
    THEN LET mem_diff == node.ram_reserved - maximum_reserve
         IN  [node EXCEPT !.ram_reserved = node.ram_reserved - mem_diff,
                          !.ram_usage = node.ram_usage - mem_diff]
    ELSE node

is_busy(node, powersave) ==
    IF powersave
    THEN node.processing >= node.num_cores \div 4
    ELSE node.processing >= node.num_cores

\* a plausible slip: one job too many is let in
free_cores_offbyone(node, powersave) ==
    IF powersave
    THEN Max((node.num_cores \div 4) + 1 - node.processing, 0)
    ELSE node.num_cores + 1 - node.processing

\* CloudNode::free_cores.  The powersaving branch is a saturating_sub.  The
\* other branch is a plain u32 subtraction, which has no value when
\* processing > num_cores (see FreeCoresDefined).
free_cores(node, powersave) ==
    IF powersave
    THEN Max((node.num_cores \div 4) - node.processing, 0)
    ELSE node.num_cores - node.processing

FreeCoresDefined(node, powersave) == powersave \/ node.processing <= node.num_cores

\* the entries of a wait FIFO that have not timed out at `time`, in order
RECURSIVE retain_live(_, _)
retain_live(requests, time) ==
    IF requests = <<>> THEN <<>>
    ELSE IF Head(requests).timestamp + REQUEST_TIMEOUT < time
         THEN retain_live(Tail(requests), time)
         ELSE <<Head(requests)>> \o retain_live(Tail(requests), time)

RECURSIVE SumField(_, _)
SumField(seq, f) ==
    IF seq = <<>> THEN 0 ELSE Head(seq)[f] + SumField(Tail(seq), f)

\* a plausible slip: the memory of the requests removed is not released
clear_timedout_requests_keepram(node, time) ==
    LET live == retain_live(node.requests, time)
    IN  [amount |-> SumField(node.requests, "amount") - SumField(live, "amount"),
         node |-> [node EXCEPT !.requests = live]]

\* CloudNode::clear_timedout_requests: [amount: the op amount dropped, node]
clear_timedout_requests(node, time) ==
    LET live == retain_live(node.requests, time)
        freed == SumField(node.requests, "mem_required") - SumField(live, "mem_required")
        amount == SumField(node.requests, "amount") - SumField(live, "amount")
    IN  [amount |-> amount,
         node |-> [node EXCEPT !.requests = live, !.ram_usage = node.ram_usage - freed]]

(***************************************************************************)
(* The card catalog (central/cards/all.rs).  A cost is (money, base ops,   *)
(* super ops, epic ops, awesome ops).  An effect is a CardEffect: its tag  *)
(* and its arguments (kind: a service; money; n, m: numbers, where demand  *)
(* amounts are in quarters, a spam protection rate is in eighths and a     *)
(* routing level is its discriminant).  The conditions under which the     *)
(* view shows a card are not part of the engine and are left out.          *)
(***************************************************************************)
\* stands for i64::MAX, the ops cost of the last card, which no balance of
\* the model reaches
OPS_MAX == 2147483647

Cost(money, base_ops, super_ops, epic_ops, awesome_ops) ==
    [money |-> money, base_ops |-> base_ops, super_ops |-> super_ops,
     epic_ops |-> epic_ops, awesome_ops |-> awesome_ops]

Effect(e, kind, money, n, m) == [e |-> e, kind |-> kind, money |-> money, n |-> n, m |-> m]

Card(id, cost, effect) == [id |-> id, cost |-> cost, effect |-> effect]

ALL_CARDS == <<
    Card("a0p", Cost(dollars(0), 8, 0, 0, 0),
         Effect("PublishService", "Base", dollars(0), 0, 0)),
    Card("a1", Cost(dollars(200), 4000, 0, 0, 0),
         Effect("UnlockService", "Super", dollars(0), 0, 0)),
    Card("a1p", Cost(dollars(0), 0, 16, 0, 0),
         Effect("PublishService", "Super", dollars(0), 0, 0)),
    Card("a2", Cost(dollars(5420), 150000, 20000, 0, 0),
         Effect("UnlockService", "Epic", dollars(0), 0, 0)),
    Card("a2p", Cost(dollars(0), 0, 0, 32, 0),
         Effect("PublishService", "Epic", dollars(0), 0, 0)),
    Card("a3", Cost(dollars(166000), 0, 5000000, 700000, 0),
         Effect("UnlockService", "Awesome", dollars(0), 0, 0)),
    Card("a3p", Cost(dollars(0), 0, 0, 0, 64),
         Effect("PublishService", "Awesome", dollars(0), 0, 0)),
    Card("b0", Cost(dollars(0), 50, 0, 0, 0),
         Effect("AddFunds", "Base", dollars(60), 0, 0)),
    Card("b00", Cost(dollars(0), 500, 0, 0, 0),
         Effect("AddFunds", "Base", dollars(500), 0, 0)),
    Card("b000", Cost(dollars(0), 0, 1024, 0, 0),
         Effect("AddFunds", "Base", dollars(10000), 0, 0)),
    Card("b1", Cost(dollars(0), 720, 0, 0, 0),
         Effect("UpgradeEntitlements", "Base", millicents(5), 0, 0)),
    Card("b2", Cost(dollars(0), 0, 2990, 0, 0),
         Effect("UpgradeEntitlements", "Super", millicents(50), 0, 0)),
    Card("b3", Cost(dollars(0), 0, 12800, 12800, 0),
         Effect("UpgradeEntitlements", "Epic", dec_cents(5), 0, 0)),
    Card("b4", Cost(dollars(0), 0, 0, 128000, 36000),
         Effect("UpgradeEntitlements", "Awesome", cents(5), 0, 0)),
    Card("c0", Cost(dollars(100), 260, 0, 0, 0),
         Effect("MoreCaching", "Base", dollars(0), 0, 0)),
    Card("c1", Cost(dollars(400), 0, 250, 0, 0),
         Effect("MoreCaching", "Base", dollars(0), 0, 0)),
    Card("c2", Cost(dollars(2000), 0, 100000, 50000, 0),
         Effect("MoreCaching", "Base", dollars(0), 0, 0)),
    Card("c3", Cost(dollars(500000), 0, 0, 100000, 60000),
         Effect("MoreCaching", "Base", dollars(0), 0, 0)),
    Card("d0", Cost(dollars(0), 0, 0, 0, 0),
         Effect("AddClientsWithPublicity", "Base", dollars(0), 50000, 8)),
    Card("d1", Cost(dollars(5), 850, 0, 0, 0),
         Effect("AddPublicityRate", "Base", dollars(0), 96, 1)),
    Card("d2", Cost(dollars(70), 900, 0, 0, 0),
         Effect("AddPublicityRate", "Base", dollars(0), 192, 2)),
    Card("d3", Cost(dollars(290), 0, 300, 0, 0),
         Effect("AddPublicityRate", "Base", dollars(0), 352, 4)),
    Card("d3.5", Cost(dollars(750), 0, 1000, 0, 0),
         Effect("AddPublicityRate", "Base", dollars(0), 1000, 8)),
    Card("d4", Cost(dollars(7500), 0, 3000, 0, 0),
         Effect("AddPublicityRate", "Base", dollars(0), 2400, 32)),
    Card("d4.5", Cost(dollars(2000), 0, 0, 0, 0),
         Effect("AddPublicityRate", "Base", dollars(0), 256, 2)),
    Card("d5", Cost(dollars(74000), 0, 0, 6000, 0),
         Effect("AddPublicityRate", "Base", dollars(0), 7996, 80)),
    Card("d5.5", Cost(dollars(300000), 0, 0, 48000, 0),
         Effect("AddPublicityRate", "Base", dollars(0), 36000, 192)),
    Card("d6", Cost(dollars(16940000), 0, 0, 250000, 0),
         Effect("AddPublicityRate", "Base", dollars(0), 240000, 300)),
    Card("d7", Cost(dollars(50000000), 0, 0, 0, 70000),
         Effect("AddPublicityRate", "Base", dollars(0), 1200000, 800)),
    Card("e0", Cost(dollars(0), 170, 0, 0, 0),
         Effect("SetElectricityCostLevel", "Base", dollars(0), 1, 0)),
    Card("e1", Cost(dollars(180), 400, 0, 0, 0),
         Effect("SetElectricityCostLevel", "Base", dollars(0), 2, 0)),
    Card("e2", Cost(dollars(520), 0, 80000, 0, 0),
         Effect("SetElectricityCostLevel", "Base", dollars(0), 3, 0)),
    Card("e3", Cost(dollars(8800), 0, 1000000, 0, 0),
         Effect("SetElectricityCostLevel", "Base", dollars(0), 4, 0)),
    Card("e4", Cost(dollars(280000), 0, 0, 222000, 0),
         Effect("SetElectricityCostLevel", "Base", dollars(0), 5, 0)),
    Card("e5", Cost(dollars(8000000), 0, 0, 0, 1000000),
         Effect("SetElectricityCostLevel", "Base", dollars(0), 6, 0)),
    Card("f0", Cost(dollars(0), 200, 200, 0, 0),
         Effect("UpgradeSpamProtection", "Base", dollars(0), 4, 0)),
    Card("f1", Cost(dollars(0), 0, 4000, 2000, 0),
         Effect("UpgradeSpamProtection", "Base", dollars(0), 7, 0)),
    Card("f2", Cost(dollars(0), 0, 0, 40000, 20000),
         Effect("UpgradeSpamProtection", "Base", dollars(0), 8, 0)),
    Card("i0", Cost(dollars(0), 500, 0, 0, 0),
         Effect("UnlockDemandEstimate", "Base", dollars(0), 0, 0)),
    Card("n1", Cost(dollars(150), 1000, 0, 0, 0),
         Effect("UnlockMultiNodes", "Base", dollars(0), 0, 0)),
    Card("n2", Cost(dollars(100), 0, 800, 0, 0),
         Effect("UpgradeRoutingLevel", "Base", dollars(0), 1, 0)),
    Card("n3", Cost(dollars(250), 0, 6000, 0, 0),
         Effect("UnlockMultiRacks", "Base", dollars(0), 0, 0)),
    Card("n5", Cost(dollars(1000), 0, 30000, 0, 0),
         Effect("UnlockMultiDatacenters", "Base", dollars(0), 0, 0)),
    Card("n6", Cost(dollars(10000), 0, 0, 0, 8000),
         Effect("UpgradeRoutingLevel", "Base", dollars(0), 2, 0)),
    Card("s1", Cost(dollars(5), 64, 0, 0, 0),
         Effect("UpgradeServices", "Base", dollars(0), 0, 0)),
    Card("s2", Cost(dollars(40), 750, 0, 0, 0),
         Effect("UpgradeServices", "Base", dollars(0), 0, 0)),
    Card("s3", Cost(dollars(220), 0, 500, 0, 0),
         Effect("UpgradeServices", "Base", dollars(0), 0, 0)),
    Card("s4", Cost(dollars(980), 0, 0, 4000, 0),
         Effect("UpgradeServices", "Base", dollars(0), 0, 0)),
    Card("test-0", Cost(dollars(0), 0, 0, 0, 0),
         Effect("AddFunds", "Base", dollars(200), 0, 0)),
    Card("test-1", Cost(dollars(0), 500, 0, 0, 0),
         Effect("UpgradeServices", "Base", dollars(0), 0, 0)),
    Card("test-2", Cost(dollars(0), 0, 100, 0, 0),
         Effect("AddPublicityRate", "Base", dollars(0), 80, 0)),
    Card("test-3", Cost(dollars(0), 0, 500000, 0, 0),
         Effect("UpgradeServices", "Base", dollars(0), 0, 0)),
    Card("test-4", Cost(dollars(0), 0, 0, 0, 0),
         Effect("Nothing", "Base", dollars(0), 0, 0)),
    Card("win0", Cost(dollars(0), 0, 0, 0, 0),
         Effect("Nothing", "Base", dollars(0), 0, 0)),
    Card("win1", Cost(dollars(0), 0, 0, 0, 0),
         Effect("Nothing", "Base", dollars(0), 0, 0)),
    Card("win2", Cost(dollars(0), 0, 0, 0, 0),
         Effect("Nothing", "Base", dollars(0), 0, 0)),
    Card("win3", Cost(dollars(0), 0, 0, 0, 0),
         Effect("Nothing", "Base", dollars(0), 0, 0)),
    Card("win4", Cost(dollars(0), 0, 0, 0, 0),
         Effect("Nothing", "Base", dollars(0), 0, 0)),
    Card("win5", Cost(dollars(0), 0, 0, 0, 1),
         Effect("Nothing", "Base", dollars(0), 0, 0)),
    Card("win6", Cost(dollars(0), 0, 0, 0, 0),
         Effect("Nothing", "Base", dollars(0), 0, 0)),
    Card("win7", Cost(dollars(0), 0, 0, 0, 0),
         Effect("Nothing", "Base", dollars(0), 0, 0)),
    Card("win8", Cost(dollars(0), 0, 0, 0, 0),
         Effect("Nothing", "Base", dollars(0), 0, 0)),
    Card("win9", Cost(dollars(0), 0, 0, 0, OPS_MAX),
         Effect("Nothing", "Base", dollars(0), 0, 0)) >>

\* the position of a card id in the catalog (1-based), 0 when it is unknown.
\* The catalog is in ascending id order, so the source's binary search by id
\* finds exactly the ids it holds.
card_index(id) ==
    IF \E i \in 1..Len(ALL_CARDS) : ALL_CARDS[i].id = id
    THEN CHOOSE i \in 1..Len(ALL_CARDS) : ALL_CARDS[i].id = id
    ELSE 0

(***************************************************************************)
(* Scenarios.  A run is one scenario: an initial world and the sets the    *)
(* inputs and the sampled values are drawn from.  `scn` never changes.     *)
(***************************************************************************)
\* durations: what next_request may return; amounts: the batch sizes of
\* group_demand; steps: by how much a call of update advances the time (the
\* application's tick is 500); span: for how long the run is followed;
\* clicks, cards, nodes, buys, prices, pay: the player's actions and their
\* arguments; max_clicks, max_acts: how many of them are followed;
\* click_window: for how long after the start the player acts.
Quiet ==
    [durations |-> {}, amounts |-> {1}, steps |-> {}, span |-> 0,
     clicks |-> {}, max_clicks |-> 0, click_window |-> 0, cards |-> {}, nodes |-> {}, buys |-> {},
     prices |-> {}, pay |-> FALSE, max_acts |-> 0]

Click(kind, amount) == [type |-> "OpClick", kind |-> kind, amount |-> amount]

Scenario(name) ==
    CASE name = "A" ->
            [Quiet EXCEPT !.steps = {TIME_UNITS_PER_CYCLE}, !.span = SpanA,
                          !.clicks = {Click(kind, 1) : kind \in {"Base", "Super", "Epic"}},
                          !.max_clicks = 1, !.click_window = TIME_UNITS_PER_CYCLE]
      [] name = "shop" ->
            [Quiet EXCEPT !.cards = {"b0", "s1", "test-1", "c0", "e0", "n2", "f0",
                                     "no-such-card"},
                          !.nodes = {0, 1}, !.pay = TRUE,
                          !.buys = {"AddNode", "AddUpgradedNode", "AddRack"},
                          !.prices = {millicents(25)},
                          !.max_acts = MaxActs]
      [] name = "fifo" ->
            [Quiet EXCEPT !.steps = {MAJOR_UPDATE_GATE}, !.span = SpanFifo,
                          !.clicks = {Click("Base", 1), Click("Base", 2), Click("Super", 1)},
                          !.max_clicks = MaxClicks, !.click_window = MAJOR_UPDATE_GATE,
                          !.cards = {"s1", "c0"}, !.nodes = {0}, !.max_acts = 1]
      [] name = "pair" ->
            [Quiet EXCEPT !.steps = {TIME_UNITS_PER_CYCLE}, !.span = SpanPair,
                          !.clicks = {Click("Base", 1)},
                          !.max_clicks = MaxClicks, !.click_window = TIME_UNITS_PER_CYCLE]
      [] name = "sweep" ->
            [Quiet EXCEPT !.steps = {TIMEOUT_CLEANUP_PERIOD}, !.span = SpanSweep,
                          !.clicks = {Click("Epic", 12), Click("Base", 1)},
                          !.max_clicks = MaxClicks, !.click_window = TIMEOUT_CLEANUP_PERIOD]
      [] name = "power" ->
            [Quiet EXCEPT !.steps = {TIME_UNITS_PER_CYCLE}, !.span = SpanPower,
                          !.clicks = {Click("Base", 1)},
                          !.max_clicks = MaxClicks, !.click_window = TIME_UNITS_PER_CYCLE,
                          !.pay = TRUE, !.nodes = {0}, !.max_acts = 1]
      [] name = "load" ->
            [Quiet EXCEPT !.steps = {TIME_UNITS_PER_CYCLE}, !.span = SpanLoad, !.durations = {1}]
      [] name = "spam" ->
            [Quiet EXCEPT !.steps = {TIME_UNITS_PER_CYCLE}, !.span = SpanSpam]
      [] name = "trial" ->
            [Quiet EXCEPT !.steps = {TIME_UNITS_PER_CYCLE}, !.span = SpanTrial,
                          !.durations = {20000, 45000}, !.amounts = {1, 3},
                          !.cards = {"d0"}, !.max_acts = 1,
                          !.click_window = TIME_UNITS_PER_CYCLE]
      [] name = "dos" ->
            [Quiet EXCEPT !.steps = {MAJOR_UPDATE_GATE}, !.span = SpanDos,
                          !.durations = {2500}, !.cards = {"f2"}, !.max_acts = 1,
                          !.click_window = 5000]
      [] name = "expand" ->
            [Quiet EXCEPT !.steps = {TIME_UNITS_PER_CYCLE}, !.span = SpanExpand,
                          !.cards = {"n5"}, !.max_acts = 1,
                          !.click_window = TIME_UNITS_PER_CYCLE]
      [] name = "bill" ->
            [Quiet EXCEPT !.steps = {TIME_UNITS_PER_CYCLE}, !.span = SpanBill,
                          !.clicks = {Click("Base", 1)}, !.max_clicks = 1,
                          !.click_window = SpanBill, !.pay = TRUE, !.max_acts = 1]
      [] name = "gate" ->
            [Quiet EXCEPT !.steps = {70, 130, 2600}, !.span = SpanGate]
      [] name = "overflow" ->
            [Quiet EXCEPT !.cards = {"c0"}, !.max_acts = MaxCaching]
      [] name = "reuse" ->
            [Quiet EXCEPT !.steps = {TIME_UNITS_PER_CYCLE}, !.span = SpanReuse,
                          !.durations = {400}, !.cards = {"f2", "a1p"}, !.max_acts = 2]
      [] name = "closed" ->
            [Quiet EXCEPT !.steps = {MAJOR_UPDATE_GATE}, !.span = SpanClosed,
                          !.clicks = {Click("Base", 1)},
                          !.max_clicks = MaxClicks, !.click_window = MAJOR_UPDATE_GATE]
      [] name = "reroute" ->
            [Quiet EXCEPT !.steps = {TIME_UNITS_PER_CYCLE}, !.span = SpanReroute,
                          !.durations = {2000}, !.cards = {"n6"}, !.max_acts = 1,
                          !.click_window = TIME_UNITS_PER_CYCLE]
      [] name = "stale" ->
            [Quiet EXCEPT !.steps = {TIME_UNITS_PER_CYCLE}, !.span = SpanStale,
                          !.durations = {300}]
      [] name = "clients" ->
            [Quiet EXCEPT !.steps = {TIME_UNITS_PER_CYCLE}, !.span = SpanClients,
                          !.durations = {300, 900}, !.max_acts = 2,
                          !.click_window = TIME_UNITS_PER_CYCLE]
      [] OTHER -> Quiet

Cfg == Scenario(scn)

\* what SampleGenerator::next_request may return in this run.  The source
\* samples an exponential distribution scaled to time units: any duration
\* can come out; the scenario keeps a few.
NextRequest == Cfg.durations

\* the batch size group_demand computes from the tier's demand (1 up to 250,
\* a function of demand and price through a real power); the scenario keeps
\* the sizes that occur in it.
GroupAmounts == Cfg.amounts

(***************************************************************************)
(* WorldState (central/state.rs)                                           *)
(***************************************************************************)
ServiceInfo_new_private(price) ==
    [price |-> price, entitlement |-> MoneyZero, available |-> 0, total |-> 0,
     unlocked |-> TRUE, private |-> TRUE]

ServiceInfo_new_locked(price) ==
    [price |-> price, entitlement |-> MoneyZero, available |-> 0, total |-> 0,
     unlocked |-> FALSE, private |-> TRUE]

Electricity_default ==
    [cost_level |-> 0, consumed |-> 0, total_consumed |-> 0, total_due |-> MoneyZero,
     last_bill_time |-> 0, recent_energy_consumed |-> 0, energy_consumption_rate |-> 0]

\* routing levels by discriminant
MainNode == 0
Distributed == 1
NoRoutingCost == 2

\* WorldState::default().  service[kind] stands for the four fields
\* base_service .. awesome_service.  demand and demand_rate count quarters;
\* electricity consumption counts hundredths of a milliWattever;
\* spam_protection counts eighths.
WorldState_default ==
    [time |-> 0, funds |-> dollars(10), spent |-> MoneyZero, earned |-> MoneyZero,
     demand |-> 0, demand_rate |-> 1,
     software_level |-> 0, cache_level |-> 0, routing_level |-> MainNode,
     ops_per_click |-> 1,
     service |-> [k \in Services |->
                    CASE k = "Base" -> ServiceInfo_new_private(millicents(50))
                      [] k = "Super" -> ServiceInfo_new_locked(dec_cents(5))
                      [] k = "Epic" -> ServiceInfo_new_locked(cents(5))
                      [] k = "Awesome" -> ServiceInfo_new_locked(dollars(1))],
     requests_dropped |-> 0, requests_failed |-> 0,
     user_specs |-> <<>>,
     electricity |-> Electricity_default,
     nodes |-> <<CloudNode_new(0)>>,
     can_see_demand |-> FALSE, can_see_energy_consumption |-> FALSE,
     can_see_request_rates |-> FALSE,
     can_buy_nodes |-> FALSE, can_buy_racks |-> FALSE, can_buy_datacenters |-> FALSE,
     spam_protection |-> 0,
     cards_used |-> <<>>]

\* GameEngine::new().  The recent_requests_* counters and the two rates
\* computed from them are display statistics and are left out.
GameEngine_new == [queue |-> <<>>, waiting_queue |-> <<>>]

\* the pair (state, engine) the engine's methods act on, and whether the
\* method panicked on the way (the state is then as the panic left it)
\* tasks: the periodic tasks the call has run (only update_major runs any)
World(st, g) == [st |-> st, g |-> g, panic |-> FALSE, tasks |-> {}]
Panicked(w) == [w EXCEPT !.panic = TRUE]

\* WorldState::node / node_mut: the position of the node with this id
\* (1-based), 0 for None.  Node ids are kept in ascending order without
\* duplicates, on which the source's binary search finds exactly the ids held.
node_index(st, id) ==
    IF \E i \in 1..Len(st.nodes) : st.nodes[i].id = id
    THEN CHOOSE i \in 1..Len(st.nodes) : st.nodes[i].id = id
    ELSE 0

\* WorldState::user_spec: the position of the cohort with this id, 0 for None
user_spec_index(st, id) ==
    IF \E i \in 1..Len(st.user_specs) : st.user_specs[i].id = id
    THEN CHOOSE i \in 1..Len(st.user_specs) : st.user_specs[i].id = id
    ELSE 0

RECURSIVE SeqMax(_, _)
SeqMax(seq, f) == IF seq = <<>> THEN 0 ELSE Max(Head(seq)[f], SeqMax(Tail(seq), f))

next_user_spec_id(st) == SeqMax(st.user_specs, "id") + 1

\* a plausible slip: only the money is tested
can_afford_money_only(st, cost) == MoneyGe(st.funds, cost.money)

can_afford(st, cost) ==
    /\ MoneyGe(st.funds, cost.money)
    /\ st.service["Base"].available >= cost.base_ops
    /\ st.service["Super"].available >= cost.super_ops
    /\ st.service["Epic"].available >= cost.epic_ops
    /\ st.service["Awesome"].available >= cost.awesome_ops

\* a plausible slip: the money is taken but the ops are not
apply_cost_money_only(st, cost) ==
    [st EXCEPT !.funds = MoneySub(st.funds, cost.money),
               !.spent = MoneyPlus(st.spent, cost.money)]

apply_cost(st, cost) ==
    [st EXCEPT !.funds = MoneySub(st.funds, cost.money),
               !.spent = MoneyPlus(st.spent, cost.money),
               !.service["Base"].available = @ - cost.base_ops,
               !.service["Super"].available = @ - cost.super_ops,
               !.service["Epic"].available = @ - cost.epic_ops,
               !.service["Awesome"].available = @ - cost.awesome_ops]

service_tier(st) ==
    CASE st.service["Awesome"].unlocked -> "Awesome"
      [] ~st.service["Awesome"].unlocked /\ st.service["Epic"].unlocked -> "Epic"
      [] ~st.service["Awesome"].unlocked /\ ~st.service["Epic"].unlocked
            /\ st.service["Super"].unlocked -> "Super"
      [] OTHER -> "Base"

memory_reserve(service) ==
    CASE service = "Base" -> BASE_MEMORY_RESERVE
      [] service = "Super" -> SUPER_MEMORY_RESERVE
      [] service = "Epic" -> EPIC_MEMORY_RESERVE
      [] service = "Awesome" -> AWESOME_MEMORY_RESERVE

\* WorldState::expected_ram_reserved; indexes SOFTWARE_LEVELS (see InTable)
expected_ram_reserved(st) ==
    (memory_reserve(service_tier(st)) \div 32) * SOFTWARE_LEVELS[st.software_level + 1]

InTable(table, level) == level + 1 <= Len(table)

is_powersaving(st) ==
    /\ MoneyGt(st.electricity.total_due, dollars(10))
    /\ st.time - st.electricity.last_bill_time >= ELECTRICITY_BILL_PERIOD

\* Electricity::add_consumption, in hundredths of a milliWattever
add_consumption(el, hundredths) ==
    [el EXCEPT !.consumed = @ + hundredths, !.total_consumed = @ + hundredths,
               !.recent_energy_consumed = @ + hundredths]

calculate_consumption_rate(el) ==
    [el EXCEPT !.energy_consumption_rate = el.recent_energy_consumed,
               !.recent_energy_consumed = 0]

\* Electricity::check_bill: the cost level's price times consumed * 1e-3,
\* truncated to a whole number of millicents.  The prices are multiples of
\* 500 millicents: price * consumed / 100000 is computed as
\* (price / 500) * consumed / 200, which stays within 32 bits.
check_bill(el) ==
    millicents(((ELECTRICITY_COST_LEVELS[el.cost_level + 1] \div 500) * el.consumed) \div 200)

\* a plausible slip: the bill is emitted and the consumption it bills is kept
emit_bill_for_keeps(el, total_cost, time) ==
    [el EXCEPT !.total_due = MoneyPlus(el.total_due, total_cost),
               !.last_bill_time = time]

emit_bill_for(el, total_cost, time) ==
    [el EXCEPT !.total_due = MoneyPlus(el.total_due, total_cost),
               !.consumed = 0, !.last_bill_time = time]

\* Electricity::pay_bills: the outstanding amount is settled
pay_bills(el) == [el EXCEPT !.total_due = MoneyZero]

\* RequestEventQueue::clear_in_nodes: the events that already refer to a node
\* are removed, the arrivals stay
clear_in_nodes(q) == SelectSeq(q, LAMBDA e : e.kind = "RequestArrived")

\* RoutingLevel::max
RoutingLevel_max(a, b) ==
    IF a = NoRoutingCost \/ b = NoRoutingCost THEN NoRoutingCost
    ELSE IF a = Distributed \/ b = Distributed THEN Distributed
    ELSE MainNode

(***************************************************************************)
(* GameEngine (central/engine.rs).  A method of the engine is an operator  *)
(* from a world to the set of worlds it may leave: the sampled values and  *)
(* the position a push takes among equal timestamps are not determined.    *)
(***************************************************************************)
\* run F on every world of W that has not panicked
Bind(W, F(_)) == UNION {IF w.panic THEN {w} ELSE F(w) : w \in W}

\* the batch sizes group_demand may give: 1 when there is no demand at all
Amounts(st) == IF st.demand = 0 THEN {1} ELSE GroupAmounts

\* GameEngine::bootstrap_events_for.  With no demand the exponential
\* distribution has rate 0, which the sampling library either refuses
\* (the unwrap panics) or answers with a sample.
bootstrap_events_for(w, user_spec) ==
    {[w EXCEPT !.g.queue = q] :
        q \in UNION {push(w.g.queue,
                          new_arrived(w.st.time + duration, user_spec.id, amount,
                                      user_spec.service, user_spec.bad)) :
                     <<duration, amount>> \in NextRequest \X Amounts(w.st)}}
    \cup (IF w.st.demand = 0 THEN {Panicked(w)} ELSE {})

\* the push of a new CloudUserSpec followed by bootstrap_events_for on it
add_user_spec(w, service, trial_time, bad) ==
    LET spec == [id |-> next_user_spec_id(w.st), service |-> service,
                 trial_time |-> trial_time, bad |-> bad]
    IN  bootstrap_events_for([w EXCEPT !.st.user_specs = Append(@, spec)], spec)

has_user_spec(st, service, bad) ==
    \E i \in 1..Len(st.user_specs) :
        st.user_specs[i].service = service /\ st.user_specs[i].bad = bad

\* the arm of AddPublicityRate's loop for one service
add_dos_spec(w, service) ==
    IF has_user_spec(w.st, service, TRUE) THEN {w}
    ELSE add_user_spec(w, service, 0, TRUE)

PublishService(w, kind) ==
    LET w1 == [w EXCEPT !.st.service[kind].private = FALSE,
                        !.st.demand = IF kind = "Base" THEN 4 ELSE @]
        good(x) == IF has_user_spec(x.st, kind, FALSE) THEN {x}
                   ELSE add_user_spec(x, kind, 0, FALSE)
        dos(x) == IF x.st.demand > DEMAND_DOS_THRESHOLD THEN add_dos_spec(x, kind)
                  ELSE {x}
    IN  Bind(good(w1), dos)

SetElectricityCostLevel(w, level) ==
    LET w1 == [w EXCEPT !.st.electricity.cost_level = Max(@, level)]
    IN  IF level = 4
        THEN {[w1 EXCEPT !.st.demand = @ + 20000, !.st.demand_rate = @ + 128]}
        ELSE IF level = 6
             THEN {[w1 EXCEPT !.st.demand = @ + 200000, !.st.demand_rate = @ + 256]}
             ELSE {w1}

\* CardEffect::AddClients: no card of the catalog carries this effect
AddClients(w, service, trial_duration) ==
    add_user_spec(w, service, w.st.time + trial_duration, FALSE)

AddClientsWithPublicity(w, service, trial_duration, demand_delta) ==
    add_user_spec([w EXCEPT !.st.demand = @ + demand_delta], service,
                  IF trial_duration > 0 THEN w.st.time + trial_duration ELSE 0,
                  FALSE)

AddPublicityRate(w, demand_delta, demand_rate_delta) ==
    LET was_high_demand == w.st.demand > DEMAND_DOS_THRESHOLD
        w1 == [w EXCEPT !.st.demand = @ + demand_delta,
                        !.st.demand_rate = @ + demand_rate_delta]
        base(x) == add_dos_spec(x, "Base")
        super(x) == add_dos_spec(x, "Super")
        epic(x) == add_dos_spec(x, "Epic")
        awesome(x) == add_dos_spec(x, "Awesome")
    IN  IF ~was_high_demand /\ w1.st.demand > DEMAND_DOS_THRESHOLD
        THEN Bind(Bind(Bind(base(w1), super), epic), awesome)
        ELSE {w1}

\* software_level is bumped first; the table lookup of expected_ram_reserved
\* then panics when the new level is past the table
UpgradeServices(w) ==
    LET w1 == [w EXCEPT !.st.software_level = @ + 1]
    IN  IF ~InTable(SOFTWARE_LEVELS, w1.st.software_level) THEN {Panicked(w1)}
        ELSE LET maximum_reserve == expected_ram_reserved(w1.st)
             IN  {[w1 EXCEPT !.st.nodes =
                       [i \in 1..Len(w1.st.nodes) |->
                           release_excess_reserve(w1.st.nodes[i], maximum_reserve)]]}

\* cache_level is a u8: past 255 the addition panics in a build with
\* overflow checks and wraps to 0 in a build without
MoreCaching(w) ==
    IF w.st.cache_level < 255
    THEN {[w EXCEPT !.st.cache_level = @ + 1]}
    ELSE {[w EXCEPT !.st.cache_level = 0], Panicked(w)}

UnlockMultiDatacenters(w) ==
    LET racks == Len(w.st.nodes) \div RACK_CAPACITY
    IN  {[w EXCEPT !.st.can_buy_datacenters = TRUE,
                   !.st.nodes = [i \in 1..racks |-> new_fully_upgraded_rack(i - 1)],
                   !.g.queue = clear_in_nodes(@)]}

UpgradeSpamProtection(w, rate) ==
    {[w EXCEPT !.st.spam_protection = Max(@, rate),
               !.st.user_specs = IF rate = 8
                                 THEN SelectSeq(@, LAMBDA spec : ~spec.bad)
                                 ELSE @]}

\* GameEngine::apply_card_effect
apply_card_effect(w, effect) ==
    CASE effect.e = "Nothing" -> {w}
      [] effect.e = "UnlockDemandEstimate" -> {[w EXCEPT !.st.can_see_demand = TRUE]}
      [] effect.e = "UnlockService" ->
            {[w EXCEPT !.st.service[effect.kind].unlocked = TRUE,
                       !.st.service[effect.kind].private = TRUE]}
      [] effect.e = "PublishService" -> PublishService(w, effect.kind)
      [] effect.e = "UpgradeEntitlements" ->
            {[w EXCEPT !.st.service[effect.kind].entitlement = MoneyMax(@, effect.money)]}
      [] effect.e = "SetElectricityCostLevel" -> SetElectricityCostLevel(w, effect.n)
      [] effect.e = "AddFunds" -> {[w EXCEPT !.st.funds = MoneyPlus(@, effect.money)]}
      [] effect.e = "AddClients" -> AddClients(w, effect.kind, effect.n)
      [] effect.e = "AddClientsWithPublicity" ->
            AddClientsWithPublicity(w, effect.kind, effect.n, effect.m)
      [] effect.e = "AddPublicityRate" -> AddPublicityRate(w, effect.n, effect.m)
      [] effect.e = "UpgradeServices" -> UpgradeServices(w)
      [] effect.e = "MoreCaching" -> MoreCaching(w)
      [] effect.e = "UnlockMultiNodes" -> {[w EXCEPT !.st.can_buy_nodes = TRUE]}
      [] effect.e = "UnlockMultiRacks" -> {[w EXCEPT !.st.can_buy_racks = TRUE]}
      [] effect.e = "UnlockMultiDatacenters" -> UnlockMultiDatacenters(w)
      [] effect.e = "UpgradeSpamProtection" -> UpgradeSpamProtection(w, effect.n)
      [] effect.e = "UpgradeRoutingLevel" ->
            {[w EXCEPT !.st.routing_level = RoutingLevel_max(@, effect.n)]}

\* the position in the catalog of a used card's id: cards_used is sorted on it
used_rank(used) == card_index(used.id)

\* cards_used.push(..) followed by sort_unstable_by on the id: the new entry
\* lands anywhere among the entries with its id
record_card(w, id) ==
    LET used == [id |-> id, time |-> w.st.time]
        cards == w.st.cards_used
        below == Cardinality({i \in 1..Len(cards) : used_rank(cards[i]) < card_index(id)})
        equal == Cardinality({i \in 1..Len(cards) : cards[i].id = id})
    IN  {[w EXCEPT !.st.cards_used = InsertAt(cards, k, used)] : k \in below..(below + equal)}

Payment(w, amount) ==
    [w EXCEPT !.st.funds = MoneySub(@, amount), !.st.spent = MoneyPlus(@, amount)]

\* a plausible slip: the level is bumped before the funds are checked
UpgradeCpu_unchecked(w, node) ==
    LET i == node_index(w.st, node)
        next_level == w.st.nodes[i].cpu_level + 1
        level == CPU_LEVELS[Min(next_level + 1, Len(CPU_LEVELS))]
    IN  IF i = 0 THEN {Panicked(w)}
        ELSE IF next_level >= Len(CPU_LEVELS) THEN {w}
        ELSE IF MoneyLt(w.st.funds, level.cost)
             THEN {[w EXCEPT !.st.nodes[i].cpu_level = next_level]}
             ELSE {[w EXCEPT !.st.nodes[i].cpu_level = next_level,
                             !.st.nodes[i].num_cores = level.num_cores,
                             !.st.nodes[i].cpu_speed = level.cpu_speed,
                             !.st.funds = MoneySub(@, level.cost),
                             !.st.spent = MoneyPlus(@, level.cost)]}

UpgradeCpu(w, node) ==
    LET i == node_index(w.st, node)
        next_level == w.st.nodes[i].cpu_level + 1
        level == CPU_LEVELS[Min(next_level + 1, Len(CPU_LEVELS))]
    IN  IF i = 0 THEN {Panicked(w)}
        ELSE IF next_level >= Len(CPU_LEVELS) THEN {w}
        ELSE IF MoneyLt(w.st.funds, level.cost) THEN {w}
        ELSE {[w EXCEPT !.st.nodes[i].cpu_level = next_level,
                        !.st.nodes[i].num_cores = level.num_cores,
                        !.st.nodes[i].cpu_speed = level.cpu_speed,
                        !.st.funds = MoneySub(@, level.cost),
                        !.st.spent = MoneyPlus(@, level.cost)]}

UpgradeRam(w, node) ==
    LET i == node_index(w.st, node)
        next_level == w.st.nodes[i].ram_level + 1
        level == RAM_LEVELS[Min(next_level + 1, Len(RAM_LEVELS))]
    IN  IF i = 0 THEN {Panicked(w)}
        ELSE IF next_level >= Len(RAM_LEVELS) THEN {w}
        ELSE IF MoneyLt(w.st.funds, level.cost) THEN {w}
        ELSE {[w EXCEPT !.st.nodes[i].ram_level = next_level,
                        !.st.nodes[i].ram_capacity = level.ram_capacity,
                        !.st.funds = MoneySub(@, level.cost),
                        !.st.spent = MoneyPlus(@, level.cost)]}

\* a plausible slip: the new node is put in front of the list
add_node_front(w, cost, node) ==
    IF MoneyLt(w.st.funds, cost) THEN {w}
    ELSE {[w EXCEPT !.st.funds = MoneySub(@, cost), !.st.nodes = <<node>> \o @]}

\* AddNode, AddUpgradedNode and AddRack: the cost is taken from the funds
\* (and not added to spent) and the new node gets the next id
add_node(w, cost, node) ==
    IF MoneyLt(w.st.funds, cost) THEN {w}
    ELSE {[w EXCEPT !.st.funds = MoneySub(@, cost), !.st.nodes = Append(@, node)]}

UseCard(w, id) ==
    LET index == card_index(id)
        card == ALL_CARDS[Max(index, 1)]
        record(x) == record_card(x, id)
    IN  IF index = 0 THEN {w}
        ELSE IF ~can_afford(w.st, card.cost) THEN {w}
        ELSE Bind(apply_card_effect([w EXCEPT !.st = apply_cost(@, card.cost)],
                                    card.effect),
                  record)

\* GameEngine::apply_action.  An action is a record: its variant in `type`
\* and the variant's fields.
apply_action(w, action) ==
    CASE action.type = "OpClick" ->
            {[w EXCEPT !.g.queue = q] :
                q \in push(w.g.queue,
                           new_arrived(w.st.time + 1, None, action.amount, action.kind, FALSE))}
      [] action.type = "Payment" -> {Payment(w, action.amount)}
      [] action.type = "PayElectricityBill" ->
            {[Payment(w, w.st.electricity.total_due)
                 EXCEPT !.st.electricity = pay_bills(@)]}
      [] action.type = "ChangePrice" ->
            {[w EXCEPT !.st.service[action.kind].price = action.new_price]}
      [] action.type = "UpgradeCpu" -> UpgradeCpu(w, action.node)
      [] action.type = "UpgradeRam" -> UpgradeRam(w, action.node)
      [] action.type = "AddNode" ->
            add_node(w, BARE_NODE_COST, CloudNode_new(Len(w.st.nodes)))
      [] action.type = "AddUpgradedNode" ->
            add_node(w, UPGRADED_NODE_COST, new_fully_upgraded(Len(w.st.nodes)))
      [] action.type = "AddRack" ->
            add_node(w, UPGRADED_RACK_COST, new_fully_upgraded_rack(Len(w.st.nodes)))
      [] action.type = "UseCard" -> UseCard(w, action.id)

\* the closure push_event of process_event
push_event(w, event) == {[w EXCEPT !.g.queue = q] : q \in push(w.g.queue, event)}

drop_request(w, amount) == [w EXCEPT !.st.requests_dropped = @ + amount]

\* a plausible slip: the limit is never applied
waiting_queue_full_never(waiting_queue) == FALSE

\* the test that makes process_event drop an arrival instead of enqueueing it
waiting_queue_full(waiting_queue) == Len(waiting_queue) > WAITING_QUEUE_LIMIT

\* process_event, RequestArrived: the arrival takes a routing slot on the
\* node picked (engine.rs 698-710)
route_on(w, event, node_num, powersave) ==
    LET i == node_index(w.st, node_num)
        node == w.st.nodes[i]
        duration == time_per_request_routing(node) * event.amount
    IN  IF i = 0 THEN {Panicked(w)}
        ELSE IF is_busy(node, powersave) THEN {drop_request(w, event.amount)}
        ELSE push_event([w EXCEPT !.st.nodes[i].processing = @ + 1],
                        into_routed(event, duration, node_num))

\* process_event, RequestArrived: routing (engine.rs 652-712)
route_arrived(w, event) ==
    LET st == w.st
        powersave == is_powersaving(st)
        node_count == Len(st.nodes)
        not_busy == {n \in 0..(node_count - 1) :
                        LET i == node_index(st, n)
                        IN  i # 0 /\ ~is_busy(st.nodes[i], powersave)}
    IN  IF node_count = 1 THEN push_event(w, into_routed(event, 0, 0))
        ELSE IF st.routing_level = NoRoutingCost
        THEN IF node_count = 0 THEN {Panicked(w)}
             ELSE UNION {push_event(w, into_routed(event, 0, n)) :
                            n \in 0..(node_count - 1)}
        ELSE IF \A i \in 1..node_count : is_busy(st.nodes[i], powersave)
        THEN IF waiting_queue_full(w.g.waiting_queue)
             THEN {drop_request(w, event.amount)}
             ELSE {[w EXCEPT !.g.waiting_queue =
                        Append(@, [amount |-> event.amount,
                                   user_spec_id |-> event.user_spec_id,
                                   service |-> event.service, bad |-> event.bad])]}
        ELSE UNION {route_on(w, event, n, powersave) :
                       n \in IF st.routing_level = Distributed THEN not_busy ELSE {0}}

\* a plausible slip: the trial is never looked at and the cohort goes on
rearm_forever(w, time, event) ==
    LET i == user_spec_index(w.st, event.user_spec_id)
        spec == w.st.user_specs[i]
    IN  IF event.user_spec_id = None \/ i = 0 THEN {w}
        ELSE UNION {push_event(w, new_arrived(event.timestamp + duration * event.amount,
                                              event.user_spec_id, amount,
                                              spec.service, spec.bad)) :
                       <<duration, amount>> \in NextRequest \X Amounts(w.st)}

\* process_event, RequestArrived: the cohort's next arrival, or the end of
\* its trial (engine.rs 714-752)
rearm(w, time, event) ==
    LET i == user_spec_index(w.st, event.user_spec_id)
        spec == w.st.user_specs[i]
    IN  IF event.user_spec_id = None \/ i = 0 THEN {w}
        ELSE IF spec.trial_time > time \/ spec.trial_time = 0
        THEN UNION {push_event(w, new_arrived(event.timestamp + duration * event.amount,
                                              event.user_spec_id, amount,
                                              spec.service, spec.bad)) :
                       <<duration, amount>> \in NextRequest \X Amounts(w.st)}
             \cup (IF w.st.demand = 0 THEN {Panicked(w)} ELSE {})
        ELSE {[w EXCEPT !.st.user_specs =
                   SelectSeq(@, LAMBDA x : x.id # event.user_spec_id)]}

RequestArrived(w, time, event) ==
    LET next(x) == rearm(x, time, event)
    IN  Bind(route_arrived(w, event), next)

\* what SampleGenerator::gen_bool(chance) may return; chance /= 0 says
\* whether the chance is positive.  The sample is uniform on [0, 1], ends
\* included, and the answer is sample < chance.
gen_bool(positive) == IF positive THEN {TRUE, FALSE} ELSE {FALSE}

calculate_memory_reserve_required(service, cache_level, software_level) ==
    (memory_reserve(service) \div 32) * CACHE_LEVELS[cache_level + 1].reserve
        * SOFTWARE_LEVELS[software_level + 1]

\* a plausible slip: the memory is taken before it is checked, and kept by a
\* request that is dropped
start_or_enqueue_early(w, event, node_num, powersave, software_level, cache_level) ==
    LET i == node_index(w.st, node_num)
        node == w.st.nodes[i]
        needed == mem_required(event.service) * event.amount
        base == time_per_request(node, event.service, software_level) * event.amount
        duration == IF powersave THEN base * 4 ELSE base
        hit_duration == Max(duration \div 20, 1)
        taken == [w EXCEPT !.st.nodes[i].ram_usage = @ + needed]
        started(d) == push_event([taken EXCEPT !.st.nodes[i].processing = @ + 1],
                                 into_processed(event, node_num, d, needed))
        waiting == [timestamp |-> event.timestamp, amount |-> event.amount,
                    user_spec_id |-> event.user_spec_id, service |-> event.service,
                    mem_required |-> needed]
    IN  IF needed > node.ram_capacity - node.ram_usage
        THEN {drop_request(taken, event.amount)}
        ELSE IF ~FreeCoresDefined(node, powersave)
        THEN {Panicked(taken)} \cup started(duration)
        ELSE IF free_cores(node, powersave) >= 1
        THEN UNION {started(IF cache_hit THEN hit_duration ELSE duration) :
                       cache_hit \in gen_bool(CACHE_LEVELS[cache_level + 1].hit8 > 0)}
        ELSE {[taken EXCEPT !.st.nodes[i].requests = Append(@, waiting)]}

\* process_event, RequestRouted, steps 4 to 6 on the processing node picked,
\* whose reserve is already made (engine.rs 808-851)
start_or_enqueue(w, event, node_num, powersave, software_level, cache_level) ==
    LET i == node_index(w.st, node_num)
        node == w.st.nodes[i]
        needed == mem_required(event.service) * event.amount
        base == time_per_request(node, event.service, software_level) * event.amount
        duration == IF powersave THEN base * 4 ELSE base
        hit_duration == Max(duration \div 20, 1)
        taken == [w EXCEPT !.st.nodes[i].ram_usage = @ + needed]
        started(d) == push_event([taken EXCEPT !.st.nodes[i].processing = @ + 1],
                                 into_processed(event, node_num, d, needed))
        waiting == [timestamp |-> event.timestamp, amount |-> event.amount,
                    user_spec_id |-> event.user_spec_id, service |-> event.service,
                    mem_required |-> needed]
    IN  IF needed > node.ram_capacity - node.ram_usage
        THEN {drop_request(w, event.amount)}
        ELSE IF ~FreeCoresDefined(node, powersave)
        THEN {Panicked(taken)} \cup started(duration)
        ELSE IF free_cores(node, powersave) >= 1
        THEN UNION {started(IF cache_hit THEN hit_duration ELSE duration) :
                       cache_hit \in gen_bool(CACHE_LEVELS[cache_level + 1].hit8 > 0)}
        ELSE {[taken EXCEPT !.st.nodes[i].requests = Append(@, waiting)]}

\* process_event, RequestRouted, steps 2 and 3 (engine.rs 790-806)
process_on(w, event, node_num, powersave, software_level, cache_level) ==
    LET i == node_index(w.st, node_num)
        reserved == reserve_for(w.st.nodes[i],
                        calculate_memory_reserve_required(
                            event.service, w.st.cache_level, w.st.software_level))
    IN  IF ~reserved.ok THEN {drop_request(w, event.amount)}
        ELSE start_or_enqueue([w EXCEPT !.st.nodes[i] = reserved.node], event,
                              node_num, powersave, software_level, cache_level)

RequestRouted(w, event) ==
    LET st == w.st
        software_level == st.software_level
        cache_level == st.cache_level
        powersave == is_powersaving(st)
        routing_needed == Len(st.nodes) > 1 /\ st.routing_level # NoRoutingCost
        r == node_index(st, event.node_num)
        w1 == IF ~routing_needed THEN w
              ELSE [w EXCEPT !.st.nodes[r].processing = IF @ = 0 THEN 0 ELSE @ - 1,
                             !.st.electricity = IF powersave THEN @
                                                ELSE add_consumption(@, 1)]
        caught == IF event.bad /\ st.spam_protection > 0
                  THEN gen_bool(st.spam_protection > 0) ELSE {FALSE}
        tables == InTable(CACHE_LEVELS, cache_level) /\ InTable(SOFTWARE_LEVELS, software_level)
    IN  IF r = 0 THEN {w}
        ELSE (IF TRUE \in caught THEN {w1} ELSE {})
             \cup (IF FALSE \in caught
                   THEN IF ~tables THEN {Panicked(w1)}
                        ELSE UNION {process_on(w1, event, n, powersave,
                                               software_level, cache_level) :
                                       n \in 0..(Len(st.nodes) - 1)}
                   ELSE {})

\* CloudUserSpec::is_paying
is_paying(spec, time) == ~spec.bad /\ time >= spec.trial_time

\* a plausible slip: a request of a cohort that is gone earns nothing
revenue_of_known(st, time, event) ==
    LET service == st.service[event.service]
        i == user_spec_index(st, event.user_spec_id)
    IN  IF event.bad THEN MoneyZero
        ELSE IF event.user_spec_id # None /\ i = 0 THEN MoneyZero
        ELSE IF event.user_spec_id # None /\ i # 0 /\ is_paying(st.user_specs[i], time)
             THEN MoneyPlus(MoneyMulI32(service.price, event.amount), service.entitlement)
             ELSE service.entitlement

\* process_event, RequestProcessed, step 3: the revenue of a completed event
revenue_of(st, time, event) ==
    LET service == st.service[event.service]
        i == user_spec_index(st, event.user_spec_id)
    IN  IF event.bad THEN MoneyZero
        ELSE IF event.user_spec_id # None /\ i # 0 /\ is_paying(st.user_specs[i], time)
             THEN MoneyPlus(MoneyMulI32(service.price, event.amount), service.entitlement)
             ELSE service.entitlement

\* a plausible slip: the entry at the tail of the wait FIFO is taken
take_request_lifo(requests) ==
    <<requests[Len(requests)], SubSeq(requests, 1, Len(requests) - 1)>>

\* requests.pop_front() on a non-empty wait FIFO: <<the entry, the rest>>
take_request(requests) == <<Head(requests), Tail(requests)>>

\* process_event, RequestProcessed: the loop that starts waiting requests on
\* the node at position i, at most cores_available of them (engine.rs 938-970)
RECURSIVE drain(_, _, _, _, _)
drain(w, i, cores_available, event, software_level) ==
    LET node == w.st.nodes[i]
        taken == take_request(node.requests)
        request == taken[1]
        duration == time_per_request(node, event.service, software_level) * request.amount
        s == user_spec_index(w.st, request.user_spec_id)
        bad == IF request.user_spec_id # None /\ s # 0 THEN w.st.user_specs[s].bad
               ELSE FALSE
        processed == [timestamp |-> event.timestamp + duration,
                      user_spec_id |-> request.user_spec_id, amount |-> request.amount,
                      service |-> request.service, bad |-> bad,
                      kind |-> "RequestProcessed", node_num |-> node.id,
                      ram_required |-> request.mem_required]
        next(x) == drain(x, i, cores_available - 1, event, software_level)
    IN  IF cores_available = 0 \/ node.requests = <<>> THEN {w}
        ELSE Bind(push_event([w EXCEPT !.st.nodes[i].requests = taken[2],
                                       !.st.nodes[i].processing = @ + 1],
                             processed),
                  next)

\* a plausible slip: the core is given back also when the freed core is
\* handed to the shared routing queue
hand_over_release(w, i, event, powersave, routing_level, software_level) ==
    LET node == w.st.nodes[i]
        request == Head(w.g.waiting_queue)
        duration == time_per_request_routing(node) * request.amount
        routed == [timestamp |-> event.timestamp + duration,
                   user_spec_id |-> request.user_spec_id, amount |-> request.amount,
                   service |-> request.service, bad |-> request.bad,
                   kind |-> "RequestRouted", node_num |-> node.id, ram_required |-> 0]
        released == [w EXCEPT !.st.nodes[i].processing = IF @ = 0 THEN 0 ELSE @ - 1]
        freed == released.st.nodes[i]
    IN  IF w.g.waiting_queue # <<>> /\ (node.id = 0 \/ routing_level = Distributed)
        THEN push_event([released EXCEPT !.g.waiting_queue = Tail(@)], routed)
        ELSE IF ~FreeCoresDefined(freed, powersave)
        THEN {Panicked(released)}
             \cup drain(released, i, Len(freed.requests), event, software_level)
        ELSE drain(released, i, free_cores(freed, powersave), event, software_level)

\* process_event, RequestProcessed, step 5 (engine.rs 908-971)
hand_over(w, i, event, powersave, routing_level, software_level) ==
    LET node == w.st.nodes[i]
        request == Head(w.g.waiting_queue)
        duration == time_per_request_routing(node) * request.amount
        routed == [timestamp |-> event.timestamp + duration,
                   user_spec_id |-> request.user_spec_id, amount |-> request.amount,
                   service |-> request.service, bad |-> request.bad,
                   kind |-> "RequestRouted", node_num |-> node.id, ram_required |-> 0]
        released == [w EXCEPT !.st.nodes[i].processing = IF @ = 0 THEN 0 ELSE @ - 1]
        freed == released.st.nodes[i]
    IN  IF w.g.waiting_queue # <<>> /\ (node.id = 0 \/ routing_level = Distributed)
        THEN push_event([w EXCEPT !.g.waiting_queue = Tail(@)], routed)
        ELSE IF ~FreeCoresDefined(freed, powersave)
        THEN {Panicked(released)}
             \cup drain(released, i, Len(freed.requests), event, software_level)
        ELSE drain(released, i, free_cores(freed, powersave), event, software_level)

RequestProcessed(w, time, event) ==
    LET st == w.st
        powersave == is_powersaving(st)
        i == node_index(st, event.node_num)
        revenue == revenue_of(st, time, event)
        w1 == [w EXCEPT
                 !.st.electricity = IF powersave THEN @ ELSE add_consumption(@, 100),
                 !.st.service[event.service].total =
                     IF event.bad THEN @ ELSE @ + event.amount,
                 !.st.service[event.service].available =
                     IF event.bad THEN @ ELSE @ + event.amount,
                 !.st.nodes[i].ram_usage = @ - event.ram_required]
        settle(x) ==
            {[x EXCEPT !.st.funds = IF MoneyGt(revenue, MoneyZero)
                                    THEN MoneyPlus(@, revenue) ELSE @,
                       !.st.earned = IF MoneyGt(revenue, MoneyZero)
                                     THEN MoneyPlus(@, revenue) ELSE @,
                       !.st.requests_failed = IF event.bad THEN @ + event.amount ELSE @]}
    IN  IF i = 0 THEN {w}
        ELSE Bind(hand_over(w1, i, event, powersave, st.routing_level, st.software_level),
                  settle)

\* GameEngine::process_event
process_event(w, time, event) ==
    CASE event.kind = "RequestArrived" -> RequestArrived(w, time, event)
      [] event.kind = "RequestRouted" -> RequestRouted(w, event)
      [] event.kind = "RequestProcessed" -> RequestProcessed(w, time, event)

\* the periods of update_major are crossed between the old and the new time
crossed(period, old, new) == (new \div period) - (old \div period) > 0

\* the periodic tasks of update_major and their periods
PeriodicTasks == {"demand", "bill", "sweep", "save"}

Period(task) ==
    CASE task = "demand" -> INCREASE_DEMAND_PERIOD
      [] task = "bill" -> ELECTRICITY_BILL_PERIOD
      [] task = "sweep" -> TIMEOUT_CLEANUP_PERIOD
      [] task = "save" -> GAME_SAVE_PERIOD

\* a plausible slip: the gate is the documented period of the major update
major_update_due_period(old, new) == new - old > 0 /\ crossed(MAJOR_UPDATE_PERIOD, old, new)

\* GameEngine::update: whether the major update is done
major_update_due(old, new) == new - old > 0 /\ crossed(MAJOR_UPDATE_GATE, old, new)

\* GameEngine::update_major.  Saving the game and the request statistics do
\* not change the world and are left out; w.tasks records the tasks run.
update_major(w, time) ==
    LET st == w.st
        demand == IF crossed(INCREASE_DEMAND_PERIOD, st.time, time)
                  THEN st.demand + st.demand_rate ELSE st.demand
        rated == calculate_consumption_rate(st.electricity)
        total_cost == check_bill(rated)
        billed == IF crossed(ELECTRICITY_BILL_PERIOD, st.time, time)
                     /\ MoneyGt(total_cost, cents(50))
                  THEN emit_bill_for(rated, total_cost, time) ELSE rated
        sweep == crossed(TIMEOUT_CLEANUP_PERIOD, st.time, time)
        cleared == [i \in 1..Len(st.nodes) |-> clear_timedout_requests(st.nodes[i], time)]
    IN  [w EXCEPT !.tasks = {task \in PeriodicTasks : crossed(Period(task), st.time, time)},
                  !.st.demand = demand,
                  !.st.electricity = billed,
                  !.st.nodes = IF sweep THEN [i \in 1..Len(st.nodes) |-> cleared[i].node]
                               ELSE @,
                  !.st.requests_dropped = IF sweep THEN @ + SumField(cleared, "amount")
                                          ELSE @]

(***************************************************************************)
(* The event queue on its own: pushes, pops and peeks in any order.        *)
(* ret records the last call (op), what it returned (value), the queue it  *)
(* was called on (before) and the timestamp of the pop before it when no   *)
(* push came between (prev).  The k-th event pushed carries k as its       *)
(* user_spec_id.                                                           *)
(***************************************************************************)
NoCall == [op |-> "none", value |-> None, before |-> <<>>, prev |-> None]

NoHistory ==
    [deadline |-> 0, nacts |-> 0, nclicks |-> 0, op |-> "none",
     act |-> [type |-> "none"], event |-> NoEvent, reached |-> 0,
     routed |-> 0, processed |-> 0, routed_at |-> None, clicked |-> "none",
     total0 |-> 0, dropped0 |-> 0, failed0 |-> 0, arrived |-> 0, bad_ids |-> {},
     due_since |-> None, tasks |-> {}, last |-> 0]

Idle == [pc |-> "idle", time |-> 0]

InitQueue ==
    /\ state = WorldState_default
    /\ engine = GameEngine_new
    /\ upd = Idle
    /\ panicked = FALSE
    /\ ret = NoCall
    /\ hist = NoHistory
    /\ scn = "queue"

QPush ==
    /\ scn = "queue"
    /\ hist.nacts < MaxPush
    /\ \E timestamp \in 0..MaxStamp :
          \E q \in push(engine.queue,
                        new_arrived(timestamp, hist.nacts + 1, 1, "Base", FALSE)) :
             /\ engine' = [engine EXCEPT !.queue = q]
             /\ ret' = [op |-> "push", value |-> None, before |-> engine.queue,
                        prev |-> None]
    /\ hist' = [hist EXCEPT !.nacts = @ + 1]
    /\ UNCHANGED <<state, upd, panicked, scn>>

QPop ==
    /\ scn = "queue"
    /\ LET popped == pop(engine.queue)
       IN  /\ engine' = [engine EXCEPT !.queue = popped[2]]
           /\ ret' = [op |-> "pop", value |-> popped[1], before |-> engine.queue,
                      prev |-> IF ret.op = "pop" /\ ret.value # NoEvent
                               THEN ret.value.timestamp ELSE None]
    /\ UNCHANGED <<state, upd, panicked, hist, scn>>

QNextEventTime ==
    /\ scn = "queue"
    /\ ret' = [op |-> "next_event_time", value |-> next_event_time(engine.queue),
               before |-> engine.queue, prev |-> None]
    /\ UNCHANGED <<state, engine, upd, panicked, hist, scn>>

NextQueue == QPush \/ QPop \/ QNextEventTime

SpecQueue == InitQueue /\ [][NextQueue]_vars

Timestamps(q) == {q[i].timestamp : i \in 1..Len(q)}

Smallest(S) == CHOOSE x \in S : \A y \in S : x <= y

Sorted(q) == \A i, j \in 1..Len(q) : i < j => q[i].timestamp <= q[j].timestamp

\* C1: whatever was pushed, the queue is in timestamp order, a pop returns an
\* event with the smallest pending timestamp and removes it, a pop that
\* follows a pop returns a timestamp that is not smaller, next_event_time
\* returns the smallest pending timestamp without changing the queue, and on
\* the empty queue both return none and leave the queue empty.
C1_QueueOrdered ==
    /\ Sorted(engine.queue)
    /\ ret.op = "pop" /\ ret.before = <<>> => ret.value = NoEvent /\ engine.queue = <<>>
    /\ ret.op = "pop" /\ ret.before # <<>> =>
          /\ ret.value.timestamp = Smallest(Timestamps(ret.before))
          /\ Len(engine.queue) = Len(ret.before) - 1
          /\ ret.prev # None => ret.prev <= ret.value.timestamp
    /\ ret.op = "next_event_time" =>
          /\ engine.queue = ret.before
          /\ ret.value = IF ret.before = <<>> THEN None
                         ELSE Smallest(Timestamps(ret.before))

\* two pops in a row, the first from a queue holding several timestamps
C1_Witness ==
    /\ ret.op = "pop" /\ ret.prev # None /\ ret.value # NoEvent
    /\ ret.prev < ret.value.timestamp
    /\ engine.queue # <<>>

\* C2: events with the same timestamp leave the queue in the order in which
\* they were pushed: in the queue, of two events with equal timestamps the
\* one pushed first is in front.
C2_FifoAmongEqual ==
    \A i, j \in 1..Len(engine.queue) :
        i < j /\ engine.queue[i].timestamp = engine.queue[j].timestamp
            => engine.queue[i].user_spec_id < engine.queue[j].user_spec_id

(***************************************************************************)
(* The engine driven by the application (app.rs): player actions between   *)
(* ticks, and update, which is followed one event of its loop at a time    *)
(* (upd.pc = "loop" while a call of update is under way, upd.time being    *)
(* the time it was called with).  No action is taken after a panic.        *)
(*                                                                         *)
(* hist records how the run went: op and act, the last step and the player *)
(* action it applied; event, the event the last step of update processed;  *)
(* routed and processed, how many Routed and Processed events were         *)
(* processed so far; reached, the amounts of those Routed events;          *)
(* routed_at, the timestamp of the last of them; nclicks and nacts, the    *)
(* player's clicks and other actions so far; clicked, the tier of the last *)
(* click; total0, the ops performed before the run; deadline, the time up  *)
(* to which the run is followed.                                           *)
(***************************************************************************)
NoAction == [type |-> "none"]

\* the ops performed so far, all tiers together
TotalOps(st) ==
    st.service["Base"].total + st.service["Super"].total
        + st.service["Epic"].total + st.service["Awesome"].total

\* the time since which more than $10 is due: None when it is not, the time of
\* the world when the amount due comes to exceed $10, and the time known
\* before while it stays above $10 (a payment takes it to 0)
DueSince(st, known) ==
    IF ~MoneyGt(st.electricity.total_due, dollars(10)) THEN None
    ELSE IF known = None THEN st.time
    ELSE known

\* the ids of the malicious cohorts of a world
BadIds(st) ==
    {st.user_specs[k].id : k \in {j \in 1..Len(st.user_specs) : st.user_specs[j].bad}}

Started(st, g) ==
    /\ state = st
    /\ engine = g
    /\ upd = Idle
    /\ panicked = FALSE
    /\ ret = NoCall
    /\ hist = [NoHistory EXCEPT !.deadline = st.time + Cfg.span,
                                !.total0 = TotalOps(st),
                                !.dropped0 = st.requests_dropped,
                                !.failed0 = st.requests_failed,
                                !.due_since =
                                    IF MoneyGt(st.electricity.total_due, dollars(10))
                                    THEN st.electricity.last_bill_time ELSE None,
                                !.bad_ids = BadIds(st)
                                    \cup {g.queue[k].user_spec_id :
                                             k \in {j \in 1..Len(g.queue) : g.queue[j].bad}}]

Commit(w, op, act, event) ==
    /\ state' = w.st
    /\ engine' = w.g
    /\ panicked' = w.panic
    /\ hist' = [hist EXCEPT !.op = op, !.act = act, !.event = event,
                            !.nacts = IF op = "action" /\ act.type # "OpClick"
                                      THEN @ + 1 ELSE @,
                            !.nclicks = IF op = "action" /\ act.type = "OpClick"
                                        THEN @ + 1 ELSE @,
                            !.clicked = IF op = "action" /\ act.type = "OpClick"
                                        THEN act.kind ELSE @,
                            !.reached = IF event.kind = "RequestRouted"
                                        THEN @ + event.amount ELSE @,
                            !.routed = IF event.kind = "RequestRouted" THEN @ + 1 ELSE @,
                            !.routed_at = IF event.kind = "RequestRouted"
                                          THEN event.timestamp ELSE @,
                            !.processed = IF event.kind = "RequestProcessed"
                                          THEN @ + 1 ELSE @,
                            !.arrived = IF event.kind = "RequestArrived"
                                        THEN @ + 1 ELSE @,
                            !.bad_ids = @ \cup BadIds(w.st),
                            !.due_since = DueSince(w.st, @),
                            !.tasks = w.tasks,
                            !.last = IF event.kind = "none" THEN @
                                     ELSE Max(@, event.timestamp)]
    /\ UNCHANGED <<ret, scn>>

\* the application handing a player action to the engine
Act(action) ==
    /\ upd.pc = "idle" /\ ~panicked
    /\ \E w \in apply_action(World(state, engine), action) :
          Commit(w, "action", action, NoEvent)
    /\ UNCHANGED upd

\* the player acts during the scenario's window after the start
InWindow == state.time + Cfg.span <= hist.deadline + Cfg.click_window

OpClick ==
    /\ hist.nclicks < Cfg.max_clicks
    /\ InWindow
    /\ \E action \in Cfg.clicks : Act(action)

MayAct == hist.nacts < Cfg.max_acts /\ InWindow

PayElectricityBill == MayAct /\ Cfg.pay /\ Act([type |-> "PayElectricityBill"])

ChangePrice ==
    /\ MayAct
    /\ \E new_price \in Cfg.prices :
          Act([type |-> "ChangePrice", kind |-> "Base", new_price |-> new_price])

UpgradeCpuAction == MayAct /\ \E node \in Cfg.nodes : Act([type |-> "UpgradeCpu", node |-> node])

UpgradeRamAction == MayAct /\ \E node \in Cfg.nodes : Act([type |-> "UpgradeRam", node |-> node])

AddNode == MayAct /\ "AddNode" \in Cfg.buys /\ Act([type |-> "AddNode"])

AddUpgradedNode == MayAct /\ "AddUpgradedNode" \in Cfg.buys /\ Act([type |-> "AddUpgradedNode"])

AddRack == MayAct /\ "AddRack" \in Cfg.buys /\ Act([type |-> "AddRack"])

UseCardAction == MayAct /\ \E id \in Cfg.cards : Act([type |-> "UseCard", id |-> id])

\* a plausible slip: the loop does not stop at the time of the update
event_due_any(q, time) == next_event_time(q) # None

\* a plausible slip: an event at the very time of the update is left
event_due_before(q, time) == next_event_time(q) # None /\ next_event_time(q) < time

\* update's loop goes on while the queue holds an event not later than time
event_due(q, time) == next_event_time(q) # None /\ next_event_time(q) <= time

\* GameEngine::update is called with time = state.time + step
BeginUpdate ==
    /\ upd.pc = "idle" /\ ~panicked
    /\ \E step \in Cfg.steps :
          /\ state.time + step <= hist.deadline
          /\ upd' = [pc |-> "loop", time |-> state.time + step]
    /\ UNCHANGED <<state, engine, panicked, ret, hist, scn>>

\* one turn of update's loop that gets past the two tests: the event at the
\* front is popped and processed.  A front event older than state.time is
\* never consumed: the loop spins on it (upd.pc = "spin").
ProcessEvent ==
    /\ upd.pc = "loop" /\ ~panicked
    /\ event_due(engine.queue, upd.time)
    /\ IF next_event_time(engine.queue) < state.time
       THEN /\ upd' = [upd EXCEPT !.pc = "spin"]
            /\ UNCHANGED <<state, engine, panicked, ret, hist, scn>>
       ELSE LET popped == pop(engine.queue)
                event == popped[1]
            IN  /\ \E w \in process_event(World(state, [engine EXCEPT !.queue = popped[2]]),
                                          upd.time, event) :
                      Commit(w, "event", NoAction, event)
                /\ UNCHANGED upd

\* the loop of update is left; the major update when due, then the new time
EndUpdate ==
    /\ upd.pc = "loop" /\ ~panicked
    /\ ~event_due(engine.queue, upd.time)
    /\ LET time == upd.time
           duration == time - state.time
           w == World(state, engine)
           w1 == IF major_update_due(state.time, time)
                 THEN update_major(w, time) ELSE w
       IN  Commit([w1 EXCEPT !.st.time = time], "update", NoAction, NoEvent)
    /\ upd' = Idle

Next ==
    \/ OpClick
    \/ PayElectricityBill
    \/ ChangePrice
    \/ UpgradeCpuAction
    \/ UpgradeRamAction
    \/ AddNode
    \/ AddUpgradedNode
    \/ AddRack
    \/ UseCardAction
    \/ BeginUpdate
    \/ ProcessEvent
    \/ EndUpdate

(***************************************************************************)
(* The worlds the runs start from: the new game, and games in progress.    *)
(***************************************************************************)
\* a game in which the last electricity bill was left unpaid for a whole
\* billing period: the world is powersaving
Overdue(st) ==
    [st EXCEPT !.time = 2 * ELECTRICITY_BILL_PERIOD,
               !.electricity.last_bill_time = ELECTRICITY_BILL_PERIOD,
               !.electricity.total_due = dollars(11)]

WithRam(node, ram_level) ==
    [node EXCEPT !.ram_level = ram_level,
                 !.ram_capacity = RAM_LEVELS[ram_level + 1].ram_capacity]

WithCpu(node, cpu_level) ==
    [node EXCEPT !.cpu_level = cpu_level,
                 !.num_cores = CPU_LEVELS[cpu_level + 1].num_cores,
                 !.cpu_speed = CPU_LEVELS[cpu_level + 1].cpu_speed]

\* scenario A: the new game's single node with 1 core, at cache level 0, no
\* cohorts, nothing queued; the RAM and software upgrades bought so far and
\* the state of the electricity bill vary
WorldsA ==
    {LET st == [WorldState_default EXCEPT !.software_level = software_level,
                                          !.nodes[1] = WithRam(@, ram_level)]
     IN  IF overdue THEN Overdue(st) ELSE st :
        ram_level \in {0, 4}, software_level \in {0, 2}, overdue \in BOOLEAN}

UsedCards(ids) == [i \in 1..Len(ids) |-> [id |-> ids[i], time |-> 0]]

\* the shop: a game with some money and ops at hand, before or after the
\* four software upgrades on sale
WorldsShop ==
    {[WorldState_default EXCEPT
        !.funds = funds,
        !.service["Base"].available = ops, !.service["Base"].total = ops,
        !.service["Super"].available = ops, !.service["Super"].total = ops,
        !.service["Super"].unlocked = TRUE,
        !.software_level = IF upgraded THEN 4 ELSE 0,
        !.cards_used = IF upgraded THEN UsedCards(<<"s1", "s2", "s3", "s4">>) ELSE <<>>] :
        funds \in {dollars(10), dollars(500), dollars(300000)},
        ops \in {0, 1000}, upgraded \in BOOLEAN}

Rich(st) ==
    [st EXCEPT !.funds = dollars(500),
               !.service["Base"].available = 1000, !.service["Base"].total = 1000]

\* one node with 1 core, 256 MB or 512 MB of RAM
WorldsFifo ==
    {Rich([WorldState_default EXCEPT !.nodes[1] = WithRam(@, ram_level)]) :
        ram_level \in {0, 1}}

\* two nodes of the first level, at each routing level
WorldsPair ==
    {[WorldState_default EXCEPT !.nodes = <<CloudNode_new(0), CloudNode_new(1)>>,
                                !.can_buy_nodes = TRUE,
                                !.routing_level = routing_level] :
        routing_level \in {MainNode, Distributed, NoRoutingCost}}

\* one node with 1 core and 4 GB of RAM
WorldsSweep == {[WorldState_default EXCEPT !.nodes[1] = WithRam(@, 4)]}

\* one node with 4 cores, one tick before the unpaid bill is a period old
WorldsPower ==
    {[Overdue(Rich([WorldState_default EXCEPT
                      !.nodes[1] = WithCpu(WithRam(@, 1), 3)]))
        EXCEPT !.time = @ - TIME_UNITS_PER_CYCLE]}

\* two nodes of the first level behind the main node's routing, the base
\* service published and its cohort's first request about to arrive
WorldsLoad ==
    {[WorldState_default EXCEPT
        !.nodes = <<CloudNode_new(0), CloudNode_new(1)>>,
        !.can_buy_nodes = TRUE,
        !.demand = 4, !.service["Base"].private = FALSE,
        !.user_specs = <<[id |-> 1, service |-> "Base", trial_time |-> 0, bad |-> FALSE]>>,
        !.cards_used = UsedCards(<<"a0p">>)]}

\* a game in which the publicity cards d0 .. d5 took the demand past the
\* denial-of-service threshold before any service was published: the trial
\* cohort of d0 is over, and the last of the three spam filters removed the
\* four denial-of-service cohorts
WorldsSpam ==
    {[WorldState_default EXCEPT
        !.demand = 12300, !.demand_rate = 130,
        !.spam_protection = 8, !.requests_failed = 1000000,
        !.cards_used = UsedCards(<<"d0", "d1", "d2", "d3", "d3.5", "d4", "d4.5",
                                   "d5", "f0", "f1", "f2">>)]}

\* the same game before the last spam filter: the four denial-of-service
\* cohorts are there, and the Base tier has the entitlement of card b1
WorldsDos ==
    {[WorldState_default EXCEPT
        !.demand = 12300, !.demand_rate = 130,
        !.spam_protection = 7, !.requests_failed = 1000000,
        !.service["Base"].entitlement = millicents(5),
        !.nodes[1] = WithRam(@, 4),
        !.service["Epic"].available = 40000, !.service["Epic"].total = 50000,
        !.service["Awesome"].available = 20000, !.service["Awesome"].total = 30000,
        !.user_specs = <<[id |-> 2, service |-> "Base", trial_time |-> 0, bad |-> TRUE],
                         [id |-> 3, service |-> "Super", trial_time |-> 0, bad |-> TRUE],
                         [id |-> 4, service |-> "Epic", trial_time |-> 0, bad |-> TRUE],
                         [id |-> 5, service |-> "Awesome", trial_time |-> 0, bad |-> TRUE]>>,
        !.cards_used = UsedCards(<<"b1", "d0", "d1", "d2", "d3", "d3.5", "d4", "d4.5",
                                   "d5", "f0", "f1">>)]}

\* the game under the denial of service with the Base tier published: its
\* cohort 1 and the four denial-of-service cohorts, and the ops of the last
\* spam filter and of the card that publishes the Super tier
WorldsReuse ==
    {[WorldState_default EXCEPT
        !.demand = 12300, !.demand_rate = 130,
        !.spam_protection = 7, !.requests_failed = 1000000,
        !.nodes[1] = WithRam(@, 4),
        !.service["Base"].private = FALSE,
        !.service["Super"].unlocked = TRUE,
        !.service["Super"].available = 16, !.service["Super"].total = 16,
        !.service["Epic"].available = 40000, !.service["Epic"].total = 50000,
        !.service["Awesome"].available = 20000, !.service["Awesome"].total = 30000,
        !.user_specs = <<[id |-> 1, service |-> "Base", trial_time |-> 0, bad |-> FALSE],
                         [id |-> 2, service |-> "Base", trial_time |-> 0, bad |-> TRUE],
                         [id |-> 3, service |-> "Super", trial_time |-> 0, bad |-> TRUE],
                         [id |-> 4, service |-> "Epic", trial_time |-> 0, bad |-> TRUE],
                         [id |-> 5, service |-> "Awesome", trial_time |-> 0, bad |-> TRUE]>>,
        !.cards_used = UsedCards(<<"a0p", "d0", "d1", "d2", "d3", "d3.5", "d4", "d4.5",
                                   "d5", "f0", "f1">>)]}

\* a rack of one node or of four, with the money and the Super ops of the
\* card that opens the data centers
WorldsExpand ==
    {[WorldState_default EXCEPT
        !.nodes = [i \in 1..count |-> CloudNode_new(i - 1)],
        !.can_buy_nodes = TRUE,
        !.funds = dollars(1500),
        !.service["Super"].available = 30000, !.service["Super"].total = 30000,
        !.service["Super"].unlocked = TRUE,
        !.cards_used = UsedCards(<<"n2">>)] :
        count \in {1, RACK_CAPACITY}}

\* two ticks before the end of the second billing period: nothing is due, or
\* the bill of the first period is unpaid; the consumption of the period is
\* worth nothing, 50 cents to the millicent, a little more, or $1.28; the
\* player has $500 or $5
WorldsBill ==
    {[Rich(WorldState_default) EXCEPT
        !.funds = funds,
        !.time = 2 * ELECTRICITY_BILL_PERIOD - 2 * TIME_UNITS_PER_CYCLE,
        !.electricity.total_due = due,
        !.electricity.last_bill_time = IF due = MoneyZero THEN 0
                                       ELSE ELECTRICITY_BILL_PERIOD,
        !.electricity.consumed = consumed,
        !.electricity.total_consumed = consumed + 4000000] :
        due \in {MoneyZero, dollars(12)},
        consumed \in {0, 156250, 156254, 400000},
        funds \in {dollars(500), dollars(5)}}

\* a game with a demand that grows, a little before the end of a period of
\* each of the periodic tasks
WorldsGate ==
    {[WorldState_default EXCEPT
        !.time = boundary - 100,
        !.demand = 40, !.demand_rate = 2,
        !.electricity.consumed = 400000, !.electricity.total_consumed = 400000,
        !.cards_used = UsedCards(<<"d0">>)] :
        boundary \in {INCREASE_DEMAND_PERIOD, TIMEOUT_CLEANUP_PERIOD, GAME_SAVE_PERIOD,
                      ELECTRICITY_BILL_PERIOD}}

\* the new game with the Base entitlement of card b1, before the trial
\* customer of card d0
WorldsTrial ==
    {[WorldState_default EXCEPT
        !.service["Base"].entitlement = millicents(5),
        !.service["Base"].available = 280, !.service["Base"].total = 1000,
        !.cards_used = UsedCards(<<"b1">>)]}

\* a long game: the money and the ops for many redemptions
WorldsOverflow ==
    {[WorldState_default EXCEPT
        !.funds = dollars(30000),
        !.service["Base"].available = 70000, !.service["Base"].total = 70000]}

\* the two nodes behind the main node's routing, with the funds and the
\* operations that card n6 costs
WorldsReroute ==
    {[st EXCEPT !.funds = dollars(10000),
                !.service["Awesome"].available = 8000,
                !.service["Awesome"].total = 8000] : st \in WorldsLoad}

\* two nodes of the first level behind the main node's routing, and no
\* clients: the only requests are the player's
WorldsClosed == {st \in WorldsPair : st.routing_level = MainNode}

Worlds(name) ==
    CASE name = "A" -> WorldsA
      [] name = "shop" -> WorldsShop
      [] name = "fifo" -> WorldsFifo
      [] name = "pair" -> WorldsPair
      [] name = "sweep" -> WorldsSweep
      [] name = "power" -> WorldsPower
      [] name = "load" -> WorldsLoad
      [] name = "spam" -> WorldsSpam
      [] name = "trial" -> WorldsTrial
      [] name = "dos" -> WorldsDos
      [] name = "expand" -> WorldsExpand
      [] name = "bill" -> WorldsBill
      [] name = "gate" -> WorldsGate
      [] name = "overflow" -> WorldsOverflow
      [] name = "reuse" -> WorldsReuse
      [] name = "reroute" -> WorldsReroute
      [] name = "closed" -> WorldsClosed

\* the events pending when the run starts
Pending(name) ==
    CASE name = "load" ->
            [GameEngine_new EXCEPT !.queue = <<new_arrived(1, 1, 1, "Base", FALSE)>>]
      [] name = "spam" ->
            \* a request of the removed cohort is still on its way
            [GameEngine_new EXCEPT !.queue = <<new_arrived(1, 2, 1, "Base", TRUE)>>]
      [] name = "dos" ->
            \* each cohort has its next request pending
            [GameEngine_new EXCEPT
                !.queue = <<new_arrived(1, 2, 1, "Base", TRUE),
                            new_arrived(SpanDos + 1, 3, 1, "Super", TRUE),
                            new_arrived(SpanDos + 2, 4, 1, "Epic", TRUE),
                            new_arrived(SpanDos + 3, 5, 1, "Awesome", TRUE)>>]
      [] name = "reuse" ->
            \* each cohort has its next request pending
            [GameEngine_new EXCEPT
                !.queue = <<new_arrived(300, 1, 1, "Base", FALSE),
                            new_arrived(600, 2, 1, "Base", TRUE),
                            new_arrived(SpanReuse + 1, 3, 1, "Super", TRUE),
                            new_arrived(SpanReuse + 2, 4, 1, "Epic", TRUE),
                            new_arrived(SpanReuse + 3, 5, 1, "Awesome", TRUE)>>]
      [] name = "reroute" ->
            \* the cohort's next request arrives late in the first tick
            [GameEngine_new EXCEPT !.queue = <<new_arrived(450, 1, 1, "Base", FALSE)>>]
      [] OTHER -> GameEngine_new

Scenarios ==
    {"A", "shop", "fifo", "pair", "sweep", "power", "load", "spam", "trial", "dos", "expand",
     "bill", "gate", "overflow", "reuse", "reroute",
     "closed"}

Init ==
    /\ scn \in Scenarios
    /\ \E st \in Worlds(scn) : Started(st, Pending(scn))

Spec == Init /\ [][Next]_vars

(***************************************************************************)
(* Scenario A                                                              *)
(***************************************************************************)
\* the tier of the player's click, once there was one
ClickedA == hist.clicked

\* what the one click of scenario A has come to: one Routed event, then one
\* Processed event due time_per_request after the routing, then the op
\* counted as available and in the total; nothing dropped, nothing failed
OneClickServed(kind) ==
    LET node == state.nodes[1]
        due == hist.routed_at + time_per_request(node, kind, state.software_level)
        pending == {i \in 1..Len(engine.queue) : engine.queue[i].kind = "RequestProcessed"}
    IN  /\ hist.routed <= 1 /\ hist.processed <= 1
        /\ state.requests_dropped = 0 /\ state.requests_failed = 0
        /\ hist.routed = 1 /\ hist.processed = 0 =>
              /\ Len(engine.queue) = 1 /\ pending = {1}
              /\ engine.queue[1].timestamp = due
              /\ node.processing = 1
        /\ hist.processed = 1 =>
              /\ engine.queue = <<>>
              /\ node.processing = 0
              /\ state.service[kind].available = 1 /\ state.service[kind].total = 1
        /\ hist.processed = 0 =>
              state.service[kind].available = 0 /\ state.service[kind].total = 0
        /\ upd.pc = "idle" /\ state.time = hist.deadline => hist.processed = 1

\* the node's memory holds the tier's reserve and one request of the tier
FitsA(kind) ==
    calculate_memory_reserve_required(kind, state.cache_level, state.software_level)
        + mem_required(kind) <= state.nodes[1].ram_capacity

\* C8 as stated: in scenario A, whatever the tier, the node's RAM and the
\* state of the electricity bill, the click is routed once, processed once
\* time_per_request later, and then counted; nothing is dropped or failed.
C8_ScenarioA_AsStated ==
    scn = "A" /\ ClickedA # "none" => OneClickServed(ClickedA)

\* C8, amended: the same when the node's memory holds the tier's reserve and
\* the request, and the world is not powersaving.
C8_ScenarioA ==
    scn = "A" /\ ClickedA # "none" /\ FitsA(ClickedA) /\ ~is_powersaving(state)
        => OneClickServed(ClickedA)

C8_Witness ==
    /\ scn = "A" /\ ClickedA = "Super" /\ FitsA("Super") /\ ~is_powersaving(state)
    /\ hist.processed = 1 /\ state.service["Super"].available = 1

(***************************************************************************)
(* Capacity of the nodes                                                   *)
(***************************************************************************)
Nodes == 1..Len(state.nodes)

\* the cores a node may use: a quarter of them when the world is powersaving
effective_cores(node, powersave) ==
    IF powersave THEN node.num_cores \div 4 ELSE node.num_cores

\* C3 as stated: at every node the in-flight count is at most the effective
\* core count, num_cores or, when the world is powersaving, num_cores / 4.
C3_InFlightAsStated ==
    \A i \in Nodes :
        state.nodes[i].processing <= effective_cores(state.nodes[i], is_powersaving(state))

\* a step takes a core at node i
TakesCore(i) ==
    /\ i <= Len(state'.nodes)
    /\ state'.nodes[i].id = state.nodes[i].id
    /\ state'.nodes[i].processing > state.nodes[i].processing

\* C3, amended: at every node the in-flight count is at most num_cores, and
\* a step raises it only at a node where it is below the effective core
\* count; it is above the effective core count only for jobs taken before
\* the world started powersaving.
C3_InFlightBound ==
    /\ [](\A i \in Nodes : state.nodes[i].processing <= state.nodes[i].num_cores)
    /\ [][\A i \in Nodes :
            TakesCore(i) =>
                state.nodes[i].processing
                    < effective_cores(state.nodes[i], is_powersaving(state))]_vars

\* a job was started while the world was powersaving, on the one core the
\* 4-core node may use
C3_Witness ==
    /\ is_powersaving(state)
    /\ hist.event.kind = "RequestRouted"
    /\ \E i \in Nodes : /\ state.nodes[i].num_cores = 4
                        /\ state.nodes[i].processing = 1
                        /\ state.nodes[i].requests = <<>>

\* C4: at every node 0 <= ram_reserved <= ram_usage <= ram_capacity.
C4_MemoryBounds ==
    \A i \in Nodes :
        /\ 0 <= state.nodes[i].ram_reserved
        /\ state.nodes[i].ram_reserved <= state.nodes[i].ram_usage
        /\ state.nodes[i].ram_usage <= state.nodes[i].ram_capacity

\* a node that holds a reserve, a job and a waiting request after a software
\* upgrade released part of the reserve
C4_Witness ==
    /\ state.software_level = 1
    /\ \E i \in Nodes :
          /\ state.nodes[i].ram_reserved > 0
          /\ state.nodes[i].ram_reserved < BASE_MEMORY_RESERVE
          /\ state.nodes[i].requests # <<>>
          /\ state.nodes[i].ram_usage > state.nodes[i].ram_reserved

(***************************************************************************)
(* Player actions                                                          *)
(***************************************************************************)
\* the step applies a player action of one of these variants
Applies(types) == hist'.nacts = hist.nacts + 1 /\ hist'.act.type \in types

OpsCostTaken(cost) ==
    /\ state'.service["Base"].available = state.service["Base"].available - cost.base_ops
    /\ state'.service["Super"].available = state.service["Super"].available - cost.super_ops
    /\ state'.service["Epic"].available = state.service["Epic"].available - cost.epic_ops
    /\ state'.service["Awesome"].available
          = state.service["Awesome"].available - cost.awesome_ops

\* what the card's effect adds to the funds
FundsAdded(card) == IF card.effect.e = "AddFunds" THEN card.effect.money ELSE MoneyZero

\* the step applied the action in full
AppliedInFull(act) ==
    LET i == node_index(state, act.node)
        card == ALL_CARDS[card_index(act.id)]
    IN  /\ ~panicked'
        /\ CASE act.type = "UpgradeCpu" ->
                  /\ i # 0
                  /\ state'.nodes[i].cpu_level = state.nodes[i].cpu_level + 1
                  /\ state'.nodes[i].num_cores = CPU_LEVELS[state'.nodes[i].cpu_level + 1].num_cores
                  /\ state'.funds = MoneySub(state.funds,
                                             CPU_LEVELS[state'.nodes[i].cpu_level + 1].cost)
             [] act.type = "UpgradeRam" ->
                  /\ i # 0
                  /\ state'.nodes[i].ram_level = state.nodes[i].ram_level + 1
                  /\ state'.nodes[i].ram_capacity
                        = RAM_LEVELS[state'.nodes[i].ram_level + 1].ram_capacity
                  /\ state'.funds = MoneySub(state.funds,
                                             RAM_LEVELS[state'.nodes[i].ram_level + 1].cost)
             [] act.type = "AddNode" ->
                  /\ state'.nodes = Append(state.nodes, CloudNode_new(Len(state.nodes)))
                  /\ state'.funds = MoneySub(state.funds, BARE_NODE_COST)
             [] act.type = "AddUpgradedNode" ->
                  /\ state'.nodes = Append(state.nodes, new_fully_upgraded(Len(state.nodes)))
                  /\ state'.funds = MoneySub(state.funds, UPGRADED_NODE_COST)
             [] act.type = "AddRack" ->
                  /\ state'.nodes = Append(state.nodes, new_fully_upgraded_rack(Len(state.nodes)))
                  /\ state'.funds = MoneySub(state.funds, UPGRADED_RACK_COST)
             [] act.type = "UseCard" ->
                  /\ card_index(act.id) # 0
                  /\ state'.funds = MoneyPlus(MoneySub(state.funds, card.cost.money),
                                              FundsAdded(card))
                  /\ OpsCostTaken(card.cost)
                  /\ Len(state'.cards_used) = Len(state.cards_used) + 1
                  /\ \E k \in 1..Len(state'.cards_used) : state'.cards_used[k].id = act.id

\* the step rejected the action
Rejected == state' = state /\ engine' = engine /\ ~panicked'

\* the action has to be rejected: the money or the ops are short, the node
\* is at the top level, or the card is not in the catalog
MustReject(act) ==
    LET i == node_index(state, act.node)
        index == card_index(act.id)
    IN  CASE act.type = "UpgradeCpu" ->
                i # 0 /\ (\/ state.nodes[i].cpu_level + 1 >= Len(CPU_LEVELS)
                          \/ MoneyLt(state.funds, CPU_LEVELS[state.nodes[i].cpu_level + 2].cost))
          [] act.type = "UpgradeRam" ->
                i # 0 /\ (\/ state.nodes[i].ram_level + 1 >= Len(RAM_LEVELS)
                          \/ MoneyLt(state.funds, RAM_LEVELS[state.nodes[i].ram_level + 2].cost))
          [] act.type = "AddNode" -> MoneyLt(state.funds, BARE_NODE_COST)
          [] act.type = "AddUpgradedNode" -> MoneyLt(state.funds, UPGRADED_NODE_COST)
          [] act.type = "AddRack" -> MoneyLt(state.funds, UPGRADED_RACK_COST)
          [] act.type = "UseCard" ->
                \/ index = 0
                \/ ~can_afford(state, ALL_CARDS[Max(index, 1)].cost)

Purchases == {"UpgradeCpu", "UpgradeRam", "AddNode", "AddUpgradedNode", "AddRack", "UseCard"}

\* C5: a step of UpgradeCpu, UpgradeRam, AddNode, AddUpgradedNode, AddRack
\* or UseCard either applies in full (the funds go down by the cost, the ops
\* by the card's ops cost, the effect takes place) or is rejected and leaves
\* the world as it was; it is rejected when the money or the ops are short,
\* at the top level, and for an id that is not in the catalog.
C5_ActionsAtomic ==
    [][Applies(Purchases) =>
          IF MustReject(hist'.act) THEN Rejected
          ELSE AppliedInFull(hist'.act)]_vars

(***************************************************************************)
(* Levels                                                                  *)
(***************************************************************************)
\* C6: no step lowers a level: the cpu_level and ram_level of a node that
\* stays, the software level, the cache level, the routing level, the spam
\* protection and the electricity cost level.
C6_LevelsMonotone ==
    [][/\ state'.software_level >= state.software_level
       /\ state'.cache_level >= state.cache_level
       /\ state'.routing_level >= state.routing_level
       /\ state'.spam_protection >= state.spam_protection
       /\ state'.electricity.cost_level >= state.electricity.cost_level
       /\ \A i \in Nodes :
             i <= Len(state'.nodes) /\ state'.nodes[i].id = state.nodes[i].id =>
                /\ state'.nodes[i].cpu_level >= state.nodes[i].cpu_level
                /\ state'.nodes[i].ram_level >= state.nodes[i].ram_level]_vars

(***************************************************************************)
(* Accounting of requests                                                  *)
(***************************************************************************)
\* no update under way, nothing in the event queue, in the shared routing
\* queue or in a node's wait FIFO
ClosedRun ==
    /\ upd.pc = "idle"
    /\ engine.queue = <<>>
    /\ engine.waiting_queue = <<>>
    /\ \A i \in Nodes : state.nodes[i].requests = <<>>

\* the ops fulfilled during the run
Fulfilled == TotalOps(state) - hist.total0

\* C7: in a closed run, dropped + fulfilled + failed is the sum of the
\* amounts of the requests that reached the Routed stage.
C7_ClosedRunAccounting ==
    ClosedRun =>
        (state.requests_dropped - hist.dropped0) + Fulfilled
            + (state.requests_failed - hist.failed0) = hist.reached

(***************************************************************************)
(* The shared routing queue                                                *)
(***************************************************************************)
\* C10: the shared routing wait queue never holds more than 2,000 entries:
\* an arrival that finds it at 2,000 while every node is busy is dropped.
C10_WaitingQueueBound == Len(engine.waiting_queue) <= WAITING_QUEUE_LIMIT

(***************************************************************************)
(* Scenario B: the wait FIFO of a node                                     *)
(***************************************************************************)
\* the step processes a Routed, a Processed event
RoutedStep == hist'.routed = hist.routed + 1 /\ ~panicked'
ProcessedStep == hist'.processed = hist.processed + 1 /\ ~panicked'

\* node i is there before and after the step
Stays(i) == i <= Len(state'.nodes) /\ state'.nodes[i].id = state.nodes[i].id

\* the node at position i once the Routed event gave back its routing slot
AfterRouting(i, event) ==
    IF /\ Len(state.nodes) > 1 /\ state.routing_level # NoRoutingCost
       /\ i = node_index(state, event.node_num)
       /\ state.nodes[i].processing > 0
    THEN [state.nodes[i] EXCEPT !.processing = @ - 1]
    ELSE state.nodes[i]

\* the memory node i holds for requests, without its reserve
RequestMemory(node) == node.ram_usage - node.ram_reserved

\* the Routed event was taken in by node i: its memory is accounted there
TakenInBy(i, event) ==
    RequestMemory(state'.nodes[i])
        = RequestMemory(state.nodes[i]) + mem_required(event.service) * event.amount

WaitingEntry(event) ==
    [timestamp |-> event.timestamp, amount |-> event.amount,
     user_spec_id |-> event.user_spec_id, service |-> event.service,
     mem_required |-> mem_required(event.service) * event.amount]

\* a Routed request taken in by a node without a free core waits at the tail
\* of the node's FIFO and no Processed event is scheduled
QueuedWhenBusy ==
    RoutedStep =>
        \A i \in Nodes :
            /\ Stays(i)
            /\ TakenInBy(i, hist'.event)
            /\ free_cores(AfterRouting(i, hist'.event), is_powersaving(state)) < 1
            => /\ state'.nodes[i].requests
                    = Append(state.nodes[i].requests, WaitingEntry(hist'.event))
               /\ state'.nodes[i].processing = AfterRouting(i, hist'.event).processing
               /\ engine'.queue = Tail(engine.queue)

\* the job started for a waiting request on the node
StartedFor(request, node, event, q) ==
    \E k \in 1..Len(q) :
        /\ q[k].kind = "RequestProcessed"
        /\ q[k].node_num = node.id
        /\ q[k].user_spec_id = request.user_spec_id
        /\ q[k].amount = request.amount
        /\ q[k].service = request.service
        /\ q[k].ram_required = request.mem_required
        /\ q[k].timestamp >= event.timestamp

\* when a job of a node completes and no request waits for routing, the
\* requests at the head of its FIFO are started, as many as cores are free
HeadStartsNext ==
    ProcessedStep =>
        LET event == hist'.event
            i == node_index(state, event.node_num)
            node == state.nodes[i]
            freed == [node EXCEPT !.processing = IF @ = 0 THEN 0 ELSE @ - 1]
            free == free_cores(freed, is_powersaving(state))
            started == Min(free, Len(node.requests))
        IN  i # 0 /\ engine.waiting_queue = <<>> /\ node.requests # <<>> /\ free >= 1
            => /\ state'.nodes[i].requests
                    = SubSeq(node.requests, started + 1, Len(node.requests))
               /\ \A j \in 1..started :
                     StartedFor(node.requests[j], node, event, engine'.queue)

\* whatever the step, requests leave a FIFO from its head and join at its tail
LeavesFromHead ==
    \A i \in Nodes :
        Stays(i) =>
            LET before == state.nodes[i].requests
                after == state'.nodes[i].requests
            IN  IF Len(after) <= Len(before)
                THEN after = SubSeq(before, Len(before) - Len(after) + 1, Len(before))
                ELSE before = SubSeq(after, 1, Len(before))

\* C9: a Routed request that reaches a node whose cores are all occupied,
\* with memory for it, is appended to the node's wait FIFO and no Processed
\* event is scheduled for it; when a job of the node completes with the
\* shared routing queue empty, the head of the FIFO is started next; requests
\* leave the FIFO in the order in which they came.
C9_WaitFifo == [][QueuedWhenBusy /\ HeadStartsNext /\ LeavesFromHead]_vars

\* a job has completed on the 1-core node, the head of its FIFO was started
\* and another request still waits behind
C9_Witness ==
    /\ scn = "fifo"
    /\ hist.event.kind = "RequestProcessed"
    /\ state.nodes[1].processing = 1
    /\ state.nodes[1].requests # <<>>
    /\ \E k \in 1..Len(engine.queue) : engine.queue[k].kind = "RequestProcessed"

(***************************************************************************)
(* Scenario D: the end of a trial                                          *)
(***************************************************************************)
\* the step processes an Arrived event
ArrivedStep == hist'.arrived = hist.arrived + 1 /\ ~panicked'

\* the arrivals pending for a cohort
ArrivalsOf(q, id) ==
    Cardinality({k \in 1..Len(q) :
                    q[k].kind = "RequestArrived" /\ q[k].user_spec_id = id})

\* C11: an Arrived event of a cohort with a nonzero trial_time, processed in
\* an update whose time is >= trial_time, schedules no further arrival of
\* the cohort and removes the cohort from user_specs; processed in an
\* earlier update it schedules exactly one next arrival and the cohort stays.
C11_TrialEnds ==
    [][ArrivedStep =>
          LET id == hist'.event.user_spec_id
              i == user_spec_index(state, id)
          IN  id # None /\ i # 0 /\ state.user_specs[i].trial_time # 0 =>
                 IF upd.time >= state.user_specs[i].trial_time
                 THEN /\ ArrivalsOf(engine'.queue, id) = ArrivalsOf(engine.queue, id) - 1
                      /\ user_spec_index(state', id) = 0
                 ELSE /\ ArrivalsOf(engine'.queue, id) = ArrivalsOf(engine.queue, id)
                      /\ user_spec_index(state', id) # 0
                      /\ \E k \in 1..Len(engine'.queue) :
                            /\ engine'.queue[k].kind = "RequestArrived"
                            /\ engine'.queue[k].user_spec_id = id
                            /\ engine'.queue[k].timestamp > hist'.event.timestamp]_vars

\* the trial customer's cohort sent a request during the trial and another,
\* and was removed on an arrival after the trial
C11_Witness ==
    /\ scn = "trial"
    /\ hist.arrived >= 2
    /\ hist.event.kind = "RequestArrived"
    /\ hist.event.user_spec_id = 1
    /\ state.user_specs = <<>>
    /\ ArrivalsOf(engine.queue, 1) = 0

(***************************************************************************)
(* The saved game (central/state.rs): save_game writes the WorldState as   *)
(* JSON text with serde_json::to_string and load_game reads it back with   *)
(* serde_json::from_str.  A number is written as its decimal digits; a     *)
(* field that may be left out of the text is a set, empty when left out.   *)
(* The real-valued fields are the fixed-point numbers of this model, so    *)
(* their text is a whole part and three decimals.                          *)
(***************************************************************************)
RECURSIVE ToDigits(_)
ToDigits(n) == IF n < 10 THEN <<n>> ELSE Append(ToDigits(n \div 10), n % 10)

RECURSIVE FromDigits(_)
FromDigits(digits) ==
    IF digits = <<>> THEN 0
    ELSE 10 * FromDigits(SubSeq(digits, 1, Len(digits) - 1)) + digits[Len(digits)]

\* a signed integer (u8, u32, u64, Ops, Memory) as text, and back
IntText(n) == [neg |-> n < 0, digits |-> ToDigits(IF n < 0 THEN 0 - n ELSE n)]
ParseInt(text) == IF text.neg THEN 0 - FromDigits(text.digits) ELSE FromDigits(text.digits)

\* Money is written as its i64 count of millicents
MoneyText(a) ==
    LET neg == a.d < 0
        whole == IF ~neg THEN a.d ELSE IF a.m = 0 THEN 0 - a.d ELSE 0 - a.d - 1
        part == IF ~neg \/ a.m = 0 THEN a.m ELSE 100000 - a.m
    IN  [neg |-> neg,
         digits |-> IF whole = 0 THEN ToDigits(part)
                    ELSE ToDigits(whole) \o SubSeq(ToDigits(100000 + part), 2, 6)]

ParseMoney(text) ==
    LET n == Len(text.digits)
        whole == IF n <= 5 THEN 0 ELSE FromDigits(SubSeq(text.digits, 1, n - 5))
        part == IF n <= 5 THEN FromDigits(text.digits)
                ELSE FromDigits(SubSeq(text.digits, n - 4, n))
    IN  IF text.neg THEN MoneyNorm(0 - whole, 0 - part) ELSE MoneyNorm(whole, part)

\* a real counted in 1/unit (unit 4, 8 or 100), written with three decimals
RealText(n, unit) ==
    [whole |-> ToDigits(n \div unit),
     decimals |-> SubSeq(ToDigits(1000 + (n % unit) * (1000 \div unit)), 2, 4)]
ParseReal(text, unit) ==
    FromDigits(text.whole) * unit + FromDigits(text.decimals) \div (1000 \div unit)

\* skip_serializing_if: the field is left out when the test holds
SkipIf(test, text) == IF test THEN {} ELSE {text}
\* serde(default): the default when the field is not in the text
OrDefault(field, default) == IF field = {} THEN default ELSE CHOOSE text \in field : TRUE

\* a plausible slip: the routing level is left out whatever it is
is_default_routing_level_always(routing_level) == TRUE
is_default_routing_level(routing_level) == routing_level = MainNode
is_false(b) == ~b
is_zero_u64(x) == x = 0
is_zero_f32(x) == x = 0

RoutingLevelText(routing_level) ==
    CASE routing_level = MainNode -> "MainNode"
      [] routing_level = Distributed -> "Distributed"
      [] routing_level = NoRoutingCost -> "NoRoutingCost"
ParseRoutingLevel(text) ==
    CASE text = "MainNode" -> MainNode
      [] text = "Distributed" -> Distributed
      [] text = "NoRoutingCost" -> NoRoutingCost

\* Serialize for ServiceInfo, CloudUserSpec, UsedCard, Electricity, CloudNode
ServiceInfoText(service) ==
    [price |-> MoneyText(service.price), entitlement |-> MoneyText(service.entitlement),
     available |-> IntText(service.available), total |-> IntText(service.total),
     unlocked |-> service.unlocked, private |-> service.private]
CloudUserSpecText(spec) ==
    [id |-> IntText(spec.id), service |-> spec.service,
     trial_time |-> IntText(spec.trial_time), bad |-> spec.bad]
UsedCardText(card) == [id |-> card.id, time |-> IntText(card.time)]
\* recent_energy_consumed and energy_consumption_rate are serde(skip)
ElectricityText(el) ==
    [cost_level |-> IntText(el.cost_level), consumed |-> RealText(el.consumed, 100),
     total_consumed |-> RealText(el.total_consumed, 100),
     total_due |-> MoneyText(el.total_due), last_bill_time |-> IntText(el.last_bill_time)]
\* processing, ram_usage, ram_reserved and requests are serde(skip)
CloudNodeText(node) ==
    [id |-> IntText(node.id), cpu_level |-> IntText(node.cpu_level),
     ram_level |-> IntText(node.ram_level), num_cores |-> IntText(node.num_cores),
     ram_capacity |-> IntText(node.ram_capacity), cpu_speed |-> IntText(node.cpu_speed)]

\* serde_json::to_string(&WorldState), the text save_game stores
serialize(st) ==
    [time |-> IntText(st.time),
     funds |-> MoneyText(st.funds), spent |-> MoneyText(st.spent),
     earned |-> MoneyText(st.earned),
     demand |-> RealText(st.demand, 4), demand_rate |-> {RealText(st.demand_rate, 4)},
     software_level |-> IntText(st.software_level),
     cache_level |-> IntText(st.cache_level),
     routing_level |-> SkipIf(is_default_routing_level(st.routing_level),
                              RoutingLevelText(st.routing_level)),
     ops_per_click |-> IntText(st.ops_per_click),
     service |-> [k \in Services |-> ServiceInfoText(st.service[k])],
     requests_dropped |-> IntText(st.requests_dropped),
     requests_failed |-> SkipIf(is_zero_u64(st.requests_failed),
                                IntText(st.requests_failed)),
     user_specs |-> [i \in 1..Len(st.user_specs) |-> CloudUserSpecText(st.user_specs[i])],
     electricity |-> ElectricityText(st.electricity),
     nodes |-> [i \in 1..Len(st.nodes) |-> CloudNodeText(st.nodes[i])],
     can_see_demand |-> SkipIf(is_false(st.can_see_demand), st.can_see_demand),
     can_see_energy_consumption |->
        SkipIf(is_false(st.can_see_energy_consumption), st.can_see_energy_consumption),
     can_see_request_rates |->
        SkipIf(is_false(st.can_see_request_rates), st.can_see_request_rates),
     can_buy_nodes |-> SkipIf(is_false(st.can_buy_nodes), st.can_buy_nodes),
     can_buy_racks |-> SkipIf(is_false(st.can_buy_racks), st.can_buy_racks),
     can_buy_datacenters |-> SkipIf(is_false(st.can_buy_datacenters), st.can_buy_datacenters),
     spam_protection |-> SkipIf(is_zero_f32(st.spam_protection),
                                RealText(st.spam_protection, 8)),
     cards_used |-> [i \in 1..Len(st.cards_used) |-> UsedCardText(st.cards_used[i])]]

ParseServiceInfo(text) ==
    [price |-> ParseMoney(text.price), entitlement |-> ParseMoney(text.entitlement),
     available |-> ParseInt(text.available), total |-> ParseInt(text.total),
     unlocked |-> text.unlocked, private |-> text.private]
ParseCloudUserSpec(text) ==
    [id |-> ParseInt(text.id), service |-> text.service,
     trial_time |-> ParseInt(text.trial_time), bad |-> text.bad]
ParseUsedCard(text) == [id |-> text.id, time |-> ParseInt(text.time)]
ParseElectricity(text) ==
    [cost_level |-> ParseInt(text.cost_level), consumed |-> ParseReal(text.consumed, 100),
     total_consumed |-> ParseReal(text.total_consumed, 100),
     total_due |-> ParseMoney(text.total_due),
     last_bill_time |-> ParseInt(text.last_bill_time),
     recent_energy_consumed |-> 0, energy_consumption_rate |-> 0]
ParseCloudNode(text) ==
    [id |-> ParseInt(text.id), cpu_level |-> ParseInt(text.cpu_level),
     ram_level |-> ParseInt(text.ram_level), num_cores |-> ParseInt(text.num_cores),
     ram_capacity |-> ParseInt(text.ram_capacity), cpu_speed |-> ParseInt(text.cpu_speed),
     processing |-> 0, ram_usage |-> 0, ram_reserved |-> 0, requests |-> <<>>]

\* serde_json::from_str::<WorldState>, the state load_game returns
deserialize(text) ==
    [time |-> ParseInt(text.time),
     funds |-> ParseMoney(text.funds), spent |-> ParseMoney(text.spent),
     earned |-> ParseMoney(text.earned),
     demand |-> ParseReal(text.demand, 4),
     demand_rate |-> ParseReal(OrDefault(text.demand_rate, RealText(1, 4)), 4),
     software_level |-> ParseInt(text.software_level),
     cache_level |-> ParseInt(text.cache_level),
     routing_level |-> ParseRoutingLevel(OrDefault(text.routing_level, "MainNode")),
     ops_per_click |-> ParseInt(text.ops_per_click),
     service |-> [k \in Services |-> ParseServiceInfo(text.service[k])],
     requests_dropped |-> ParseInt(text.requests_dropped),
     requests_failed |-> ParseInt(OrDefault(text.requests_failed, IntText(0))),
     user_specs |-> [i \in 1..Len(text.user_specs) |-> ParseCloudUserSpec(text.user_specs[i])],
     electricity |-> ParseElectricity(text.electricity),
     nodes |-> [i \in 1..Len(text.nodes) |-> ParseCloudNode(text.nodes[i])],
     can_see_demand |-> OrDefault(text.can_see_demand, FALSE),
     can_see_energy_consumption |-> OrDefault(text.can_see_energy_consumption, FALSE),
     can_see_request_rates |-> OrDefault(text.can_see_request_rates, FALSE),
     can_buy_nodes |-> OrDefault(text.can_buy_nodes, FALSE),
     can_buy_racks |-> OrDefault(text.can_buy_racks, FALSE),
     can_buy_datacenters |-> OrDefault(text.can_buy_datacenters, FALSE),
     spam_protection |-> ParseReal(OrDefault(text.spam_protection, RealText(0, 8)), 8),
     cards_used |-> [i \in 1..Len(text.cards_used) |-> ParseUsedCard(text.cards_used[i])]]

\* the state with its transient fields at their defaults
WithoutTransient(st) ==
    [st EXCEPT
        !.nodes = [i \in 1..Len(st.nodes) |->
                     [st.nodes[i] EXCEPT !.processing = 0, !.ram_usage = 0,
                                         !.ram_reserved = 0, !.requests = <<>>]],
        !.electricity.recent_energy_consumed = 0,
        !.electricity.energy_consumption_rate = 0]

Intercepted ==
    /\ RoutedStep
    /\ hist'.event.bad
    /\ state.spam_protection > 0
    /\ engine'.queue = Tail(engine.queue)
    /\ state'.requests_dropped = state.requests_dropped
    /\ \A i \in Nodes : Stays(i) /\ state'.nodes[i].requests = state.nodes[i].requests

\* C13: a malicious request intercepted at the Routed stage adds its amount
\* to requests_failed and nothing to requests_dropped; a step that counts a
\* capacity drop in requests_dropped leaves requests_failed alone.
C13_InterceptedCounted ==
    [][/\ Intercepted =>
             state'.requests_failed = state.requests_failed + hist'.event.amount
       /\ state'.requests_dropped > state.requests_dropped =>
             state'.requests_failed = state.requests_failed]_vars


(***************************************************************************)
(* Revenue on completion                                                   *)
(***************************************************************************)
\* the request of the event arrived with the malicious flag: the event
\* carries it, or it is a request of a malicious cohort
Malicious(event) ==
    event.bad \/ (event.user_spec_id # None /\ event.user_spec_id \in hist.bad_ids)

\* the revenue of the request completed by the step, as the rules give it
Revenue ==
    LET event == hist'.event
        service == state.service[event.service]
        i == user_spec_index(state, event.user_spec_id)
        paying == /\ event.user_spec_id # None
                  /\ i # 0
                  /\ (state.user_specs[i].trial_time = 0
                        \/ upd.time >= state.user_specs[i].trial_time)
    IN  IF Malicious(event) THEN MoneyZero
        ELSE IF paying
             THEN MoneyPlus(MoneyMulI32(service.price, event.amount), service.entitlement)
             ELSE service.entitlement

UpdateStep == (upd.pc # "idle" \/ upd'.pc # "idle") /\ ~panicked'

\* C14: on the completion of a request funds and earned both grow by exactly
\* the revenue: price * amount + entitlement for a request of a paying cohort,
\* the entitlement alone for a cohort in its trial, for the player and for a
\* cohort that no longer exists, and nothing for a malicious request; no other
\* step of an update changes funds or earned.
C14_RevenueOnCompletion ==
    [][/\ ProcessedStep =>
            /\ state'.funds = MoneyPlus(state.funds, Revenue)
            /\ state'.earned = MoneyPlus(state.earned, Revenue)
       /\ UpdateStep /\ ~ProcessedStep =>
            /\ state'.funds = state.funds
            /\ state'.earned = state.earned]_vars

\* the same with the flag the completed event carries, whatever the request
\* arrived with
RevenueByFlag ==
    LET event == hist'.event
    IN  IF event.bad THEN MoneyZero ELSE revenue_of(state, upd.time, event)

RevenueFollowsFlag ==
    [][ProcessedStep =>
            /\ state'.funds = MoneyPlus(state.funds, RevenueByFlag)
            /\ state'.earned = MoneyPlus(state.earned, RevenueByFlag)]_vars

(***************************************************************************)
(* Malicious requests                                                      *)
(***************************************************************************)
\* C15: a request that arrived with the malicious flag adds nothing to any
\* tier's available or total ops and nothing to funds or earned when it
\* completes, also after a wait in a node's FIFO and after its cohort was
\* removed by the last spam filter.
C15_MaliciousEarnsNothing ==
    [][ProcessedStep /\ Malicious(hist'.event) =>
            /\ \A kind \in Services :
                  /\ state'.service[kind].total = state.service[kind].total
                  /\ state'.service[kind].available = state.service[kind].available
            /\ state'.funds = state.funds
            /\ state'.earned = state.earned]_vars

(***************************************************************************)
(* Actions on a node that does not exist                                   *)
(***************************************************************************)
\* the step applies an upgrade to a node id the world does not hold
UpgradesUnknownNode ==
    /\ Applies({"UpgradeCpu", "UpgradeRam"})
    /\ node_index(state, hist'.act.node) = 0

\* C16: an UpgradeCpu or UpgradeRam action that names a node id that does not
\* exist leaves the WorldState unchanged and does not abort the engine.
C16_UnknownNodeRejected ==
    [][UpgradesUnknownNode => state' = state /\ ~panicked']_vars

(***************************************************************************)
(* Ops balances                                                            *)
(***************************************************************************)
OpsNonNegative == \A kind \in Services : state.service[kind].available >= 0

\* the step takes ops from a tier's balance
OpsDeducted == \E kind \in Services : state'.service[kind].available < state.service[kind].available

\* the step redeems a card whose cost the world covers
RedeemsAffordable ==
    /\ Applies({"UseCard"})
    /\ card_index(hist'.act.id) # 0
    /\ can_afford(state, ALL_CARDS[card_index(hist'.act.id)].cost)

\* C17: each tier's available ops balance is >= 0 in every reachable state;
\* ops are only deducted by redeeming a card, and only by a card whose cost
\* funds and the four balances cover.
C17_OpsNeverNegative ==
    /\ []OpsNonNegative
    /\ [][OpsDeducted => RedeemsAffordable]_vars

\* a card was paid in ops
C17_Witness ==
    /\ scn = "shop"
    /\ hist.op = "action" /\ hist.act.type = "UseCard"
    /\ \E kind \in Services : state.service[kind].available < state.service[kind].total

(***************************************************************************)
(* The nodes of a session                                                  *)
(***************************************************************************)
\* C18: nodes are never destroyed: no step lowers the number of nodes, and
\* every node id the world holds is still held after the step.
C18_NodesKept ==
    [][/\ Len(state'.nodes) >= Len(state.nodes)
       /\ \A i \in 1..Len(state.nodes) : node_index(state', state.nodes[i].id) # 0]_vars

(***************************************************************************)
(* Electricity bills                                                       *)
(***************************************************************************)
\* the step is the end of an update call
UpdateEnds == upd.pc = "loop" /\ upd'.pc = "idle" /\ hist'.op = "update" /\ ~panicked'

\* the update of the step crosses a billing period with more than 50 cents accrued
BillIsDue ==
    /\ crossed(ELECTRICITY_BILL_PERIOD, state.time, upd.time)
    /\ MoneyGt(check_bill(state.electricity), cents(50))

LedgerKept ==
    /\ state'.electricity.total_due = state.electricity.total_due
    /\ state'.electricity.last_bill_time = state.electricity.last_bill_time

\* C19: a bill is emitted only at the end of an update that crosses a billing
\* period with an accrued cost above 50 cents: total_due grows by that cost,
\* consumed is reset to 0 and last_bill_time is the update's time.  Every
\* other step of an update leaves total_due and last_bill_time as they are and
\* loses nothing of the accrued consumption.
C19_BillEmission ==
    [][/\ UpdateEnds /\ BillIsDue =>
            /\ state'.electricity.total_due
                  = MoneyPlus(state.electricity.total_due, check_bill(state.electricity))
            /\ state'.electricity.consumed = 0
            /\ state'.electricity.last_bill_time = upd.time
       /\ UpdateEnds /\ ~BillIsDue =>
            /\ LedgerKept
            /\ state'.electricity.consumed = state.electricity.consumed
       /\ UpdateStep /\ ~UpdateEnds =>
            /\ LedgerKept
            /\ state'.electricity.consumed >= state.electricity.consumed]_vars

\* a bill was emitted for consumption that includes this run's
C19_Witness ==
    /\ scn = "bill"
    /\ hist.op = "update"
    /\ hist.routed > 0
    /\ state.electricity.last_bill_time = state.time
    /\ state.electricity.consumed = 0
    /\ MoneyGt(state.electricity.total_due, MoneyZero)

(***************************************************************************)
(* Powersaving                                                             *)
(***************************************************************************)
\* C20: whenever more than $10 has been due without payment for a whole
\* billing period the world is powersaving, also when further bills were
\* emitted in the meantime; whenever at most $10 is due it is not.
C20_PowersavingDerived ==
    /\ (hist.due_since # None /\ state.time - hist.due_since >= ELECTRICITY_BILL_PERIOD)
          => is_powersaving(state)
    /\ ~MoneyGt(state.electricity.total_due, dollars(10)) => ~is_powersaving(state)

(***************************************************************************)
(* The periodic tasks                                                      *)
(***************************************************************************)
\* the tasks whose period boundary lies between the world's time and the
\* time of the update under way
TasksDue == {task \in PeriodicTasks : crossed(Period(task), state.time, upd.time)}

lower_price(price) ==
    IF MoneyGe(millicents(1), price) THEN millicents(1)
    ELSE IF MoneyGe(millicents(20), price) THEN MoneySub(price, millicents(1))
    ELSE IF MoneyGe(millicents(100), price) THEN MoneySub(price, millicents(5))
    ELSE IF MoneyGe(millicents(200), price) THEN MoneySub(price, millicents(10))
    ELSE IF MoneyGe(cents(1), price) THEN MoneySub(price, millicents(50))
    ELSE IF MoneyGe(cents(2), price) THEN MoneySub(price, millicents(100))
    ELSE IF MoneyGe(cents(10), price) THEN MoneySub(price, millicents(500))
    ELSE IF MoneyGe(cents(20), price) THEN MoneySub(price, cents(1))
    ELSE IF MoneyGe(dollars(1), price) THEN MoneySub(price, cents(5))
    ELSE IF MoneyGe(dollars(2), price) THEN MoneySub(price, cents(10))
    ELSE MoneySub(price, cents(50))

\* a plausible slip: a price of exactly 20 cents is raised by the step of the
\* rung below
raise_price_strict(price) ==
    IF MoneyGe(price, dollars(25)) THEN dollars(25)
    ELSE IF MoneyGe(price, dollars(2)) THEN MoneyPlus(price, cents(50))
    ELSE IF MoneyGe(price, dollars(1)) THEN MoneyPlus(price, cents(10))
    ELSE IF MoneyGt(price, cents(20)) THEN MoneyPlus(price, cents(5))
    ELSE IF MoneyGe(price, cents(10)) THEN MoneyPlus(price, cents(1))
    ELSE IF MoneyGe(price, cents(2)) THEN MoneyPlus(price, dec_cents(5))
    ELSE IF MoneyGe(price, cents(1)) THEN MoneyPlus(price, dec_cents(1))
    ELSE IF MoneyGe(price, millicents(200)) THEN MoneyPlus(price, millicents(50))
    ELSE IF MoneyGe(price, millicents(100)) THEN MoneyPlus(price, millicents(10))
    ELSE IF MoneyGe(price, millicents(20)) THEN MoneyPlus(price, millicents(5))
    ELSE MoneyPlus(price, millicents(1))

raise_price(price) ==
    IF MoneyGe(price, dollars(25)) THEN dollars(25)
    ELSE IF MoneyGe(price, dollars(2)) THEN MoneyPlus(price, cents(50))
    ELSE IF MoneyGe(price, dollars(1)) THEN MoneyPlus(price, cents(10))
    ELSE IF MoneyGe(price, cents(20)) THEN MoneyPlus(price, cents(5))
    ELSE IF MoneyGe(price, cents(10)) THEN MoneyPlus(price, cents(1))
    ELSE IF MoneyGe(price, cents(2)) THEN MoneyPlus(price, dec_cents(5))
    ELSE IF MoneyGe(price, cents(1)) THEN MoneyPlus(price, dec_cents(1))
    ELSE IF MoneyGe(price, millicents(200)) THEN MoneyPlus(price, millicents(50))
    ELSE IF MoneyGe(price, millicents(100)) THEN MoneyPlus(price, millicents(10))
    ELSE IF MoneyGe(price, millicents(20)) THEN MoneyPlus(price, millicents(5))
    ELSE MoneyPlus(price, millicents(1))

InitPrice ==
    /\ state = WorldState_default
    /\ engine = GameEngine_new
    /\ upd = Idle
    /\ panicked = FALSE
    /\ ret = NoCall
    /\ hist = NoHistory
    /\ scn = "price"

\* the player works on the price of one tier at a time
OthersAtStart(kind) ==
    \A other \in Services \ {kind} :
        state.service[other].price = WorldState_default.service[other].price

\* ServiceCard::on_price_change with the price the button computed
PriceButton(kind, op, new_price) ==
    /\ scn = "price"
    /\ OthersAtStart(kind)
    /\ \E w \in apply_action(World(state, engine),
                             [type |-> "ChangePrice", kind |-> kind, new_price |-> new_price]) :
          /\ state' = w.st
          /\ engine' = w.g
    /\ ret' = [op |-> op, value |-> new_price, before |-> state.service[kind].price,
               prev |-> None]
    /\ UNCHANGED <<upd, panicked, hist, scn>>

RaisePrice ==
    \E kind \in Services : PriceButton(kind, "raise_price", raise_price(state.service[kind].price))

LowerPrice ==
    \E kind \in Services : PriceButton(kind, "lower_price", lower_price(state.service[kind].price))

NextPrice == RaisePrice \/ LowerPrice

SpecPrice == InitPrice /\ [][NextPrice]_vars

OnLadder(price) == MoneyGe(price, millicents(1)) /\ MoneyGe(dollars(25), price)

\* C22: for every price a tier reaches from its initial price by the two
\* buttons, raise_price and lower_price give a price between 1 millicent and
\* $25, raise_price does not lower it and lower_price does not raise it,
\* lower_price undoes raise_price below $25 and raise_price undoes
\* lower_price above 1 millicent.
C22_PriceLadder ==
    \A kind \in Services :
        LET p == state.service[kind].price
        IN  /\ OnLadder(p) /\ OnLadder(raise_price(p)) /\ OnLadder(lower_price(p))
            /\ MoneyGe(raise_price(p), p)
            /\ MoneyGe(p, lower_price(p))
            /\ MoneyLt(p, dollars(25)) => lower_price(raise_price(p)) = p
            /\ MoneyGt(p, millicents(1)) => raise_price(lower_price(p)) = p

\* the top of the ladder was reached and the raise button pressed there
C22_Witness ==
    /\ scn = "price"
    /\ ret.op = "raise_price"
    /\ ret.before = dollars(25)
    /\ ret.value = dollars(25)

(***************************************************************************)
(* Funds                                                                   *)
(***************************************************************************)
\* C23: funds never become negative, whatever the player's actions
\* (PayElectricityBill included) and the updates.
C23_FundsNonNegative == MoneyGe(state.funds, MoneyZero)

(***************************************************************************)
(* Processing while powersaving                                            *)
(***************************************************************************)
\* the Processed events the step adds to the queue
NewJobs ==
    {engine'.queue[k] : k \in {j \in 1..Len(engine'.queue) :
                                  engine'.queue[j].kind = "RequestProcessed"}}
        \ {engine.queue[k] : k \in 1..Len(engine.queue)}

\* the duration a job of `amount` requests gets at the node with this id when
\* the world is not powersaving, the service being the one the code looks at
\* (the service of the event processed)
PlainDuration(id, amount) ==
    time_per_request(state.nodes[node_index(state, id)], hist'.event.service,
                     state.software_level) * amount

\* C24: while the world is powersaving every job that starts, from a Routed
\* event or from the node's wait FIFO at a completion, is scheduled with four
\* times the duration it gets otherwise (a cache hit taking a twentieth of
\* that), and a node starts a job only while its in-flight count is below
\* num_cores / 4.
C24_PowersaveSlows ==
    [][is_powersaving(state) /\ ~panicked' =>
            /\ RoutedStep =>
                  \A job \in NewJobs :
                      LET slow == 4 * PlainDuration(job.node_num, job.amount)
                      IN  job.timestamp - hist'.event.timestamp
                              \in {slow, Max(slow \div 20, 1)}
            /\ ProcessedStep =>
                  \A job \in NewJobs :
                      job.timestamp - hist'.event.timestamp
                          = 4 * PlainDuration(job.node_num, job.amount)
            /\ \A i \in Nodes :
                  TakesCore(i) => state.nodes[i].processing < state.nodes[i].num_cores \div 4]_vars

\* the same, leaving out the jobs started from a wait FIFO
PowersaveSlowsRouted ==
    [][is_powersaving(state) /\ ~panicked' =>
            /\ RoutedStep =>
                  \A job \in NewJobs :
                      LET slow == 4 * PlainDuration(job.node_num, job.amount)
                      IN  job.timestamp - hist'.event.timestamp
                              \in {slow, Max(slow \div 20, 1)}
            /\ \A i \in Nodes :
                  TakesCore(i) => state.nodes[i].processing < state.nodes[i].num_cores \div 4]_vars

(***************************************************************************)
(* The timeout sweep                                                       *)
(***************************************************************************)
\* the entries of node i's wait FIFO that have timed out at the time of the
\* update under way, and the others, each in the FIFO's order
TimedOut(i) ==
    SelectSeq(state.nodes[i].requests,
              LAMBDA request : request.timestamp + REQUEST_TIMEOUT < upd.time)

Live(i) ==
    SelectSeq(state.nodes[i].requests,
              LAMBDA request : ~(request.timestamp + REQUEST_TIMEOUT < upd.time))

RECURSIVE TimedOutAmount(_)
TimedOutAmount(i) ==
    IF i = 0 THEN 0 ELSE SumField(TimedOut(i), "amount") + TimedOutAmount(i - 1)

\* C25: the update that crosses a boundary of the sweep period removes from
\* each node's wait FIFO exactly the entries with timestamp + 240,000 < time;
\* the node's ram_usage goes down by their mem_required, requests_dropped up
\* by their amounts; the other entries stay, in their order, and the node's
\* in-flight count and ram_reserved are unchanged.
C25_TimeoutSweep ==
    [][UpdateEnds /\ "sweep" \in TasksDue =>
            /\ Len(state'.nodes) = Len(state.nodes)
            /\ \A i \in Nodes :
                  /\ state'.nodes[i].requests = Live(i)
                  /\ state'.nodes[i].ram_usage
                        = state.nodes[i].ram_usage - SumField(TimedOut(i), "mem_required")
                  /\ state'.nodes[i].processing = state.nodes[i].processing
                  /\ state'.nodes[i].ram_reserved = state.nodes[i].ram_reserved
            /\ state'.requests_dropped
                  = state.requests_dropped + TimedOutAmount(Len(state.nodes))]_vars

\* a sweep removed the older of two waiting requests and left the other
C25_Witness ==
    /\ scn = "sweep"
    /\ hist.op = "update"
    /\ "sweep" \in hist.tasks
    /\ state.requests_dropped > hist.dropped0
    /\ \E i \in Nodes : state.nodes[i].requests # <<>>

(***************************************************************************)
(* Routing an arrival                                                      *)
(***************************************************************************)
NeedsRouting == Len(state.nodes) > 1 /\ state.routing_level # NoRoutingCost

NotBusy(i) == ~is_busy(state.nodes[i], is_powersaving(state))

\* the step takes a routing slot at node i and schedules the Routed event of
\* the request there
RoutedThrough(i) ==
    /\ state'.nodes[i].processing = state.nodes[i].processing + 1
    /\ \E k \in 1..Len(engine'.queue) :
          /\ engine'.queue[k].kind = "RequestRouted"
          /\ engine'.queue[k].node_num = state.nodes[i].id
          /\ engine'.queue[k].amount = hist'.event.amount
          /\ engine'.queue[k].service = hist'.event.service
          /\ engine'.queue[k].user_spec_id = hist'.event.user_spec_id

\* C26: an arrival that needs routing is routed through a node that is not
\* busy when there is one, is appended to the shared wait queue when all
\* nodes are busy and the queue has room, and is dropped only when all nodes
\* are busy and the queue is at its capacity.
C26_RoutingDrops ==
    [][ArrivedStep /\ NeedsRouting =>
            /\ (\E i \in Nodes : NotBusy(i)) =>
                  /\ \E i \in Nodes : NotBusy(i) /\ RoutedThrough(i)
                  /\ state'.requests_dropped = state.requests_dropped
            /\ (\A i \in Nodes : ~NotBusy(i)) /\ ~waiting_queue_full(engine.waiting_queue) =>
                  /\ Len(engine'.waiting_queue) = Len(engine.waiting_queue) + 1
                  /\ SubSeq(engine'.waiting_queue, 1, Len(engine.waiting_queue))
                        = engine.waiting_queue
                  /\ state'.requests_dropped = state.requests_dropped
            /\ state'.requests_dropped > state.requests_dropped =>
                  /\ \A i \in Nodes : ~NotBusy(i)
                  /\ waiting_queue_full(engine.waiting_queue)]_vars

\* the same for the routing level Distributed alone
RoutingDropsDistributed ==
    [][state.routing_level = Distributed =>
          (ArrivedStep /\ NeedsRouting =>
            /\ (\E i \in Nodes : NotBusy(i)) =>
                  /\ \E i \in Nodes : NotBusy(i) /\ RoutedThrough(i)
                  /\ state'.requests_dropped = state.requests_dropped
            /\ (\A i \in Nodes : ~NotBusy(i)) /\ ~waiting_queue_full(engine.waiting_queue) =>
                  /\ Len(engine'.waiting_queue) = Len(engine.waiting_queue) + 1
                  /\ state'.requests_dropped = state.requests_dropped
            /\ state'.requests_dropped > state.requests_dropped =>
                  /\ \A i \in Nodes : ~NotBusy(i)
                  /\ waiting_queue_full(engine.waiting_queue))]_vars

(***************************************************************************)
(* Draining at a completion                                                *)
(***************************************************************************)
\* the node of the completion processed by the step accepts a request of the
\* shared routing queue
AcceptsRouting(i) ==
    /\ engine.waiting_queue # <<>>
    /\ state.nodes[i].id = 0 \/ state.routing_level = Distributed

\* the node at position i with the core of the completed job given back
Released(i) ==
    [state.nodes[i] EXCEPT !.processing = IF @ = 0 THEN 0 ELSE @ - 1]

\* how many entries of the node's own wait FIFO get a core
Drained(i) ==
    Min(free_cores(Released(i), is_powersaving(state)), Len(state.nodes[i].requests))

Scheduled(q, kind, node_num, request) ==
    \E k \in 1..Len(q) :
        /\ q[k].kind = kind
        /\ q[k].node_num = node_num
        /\ q[k].user_spec_id = request.user_spec_id
        /\ q[k].amount = request.amount
        /\ q[k].service = request.service
        /\ q[k].timestamp >= hist'.event.timestamp

IsSuffix(s, t) == Len(s) <= Len(t) /\ s = SubSeq(t, Len(t) - Len(s) + 1, Len(t))

\* a queue changes only by entries leaving at the head or one entering at the
\* tail
FifoStep(old, new) ==
    \/ IsSuffix(new, old)
    \/ Len(new) = Len(old) + 1 /\ SubSeq(new, 1, Len(old)) = old

\* C27: at a completion at a node, the head of the shared routing queue gets
\* the freed core when that queue is not empty and the node accepts routing
\* (node 0, or any node when Distributed), the in-flight count staying the
\* same; otherwise the in-flight count is decremented and the free cores go
\* to entries from the head of the node's own wait FIFO, one core per entry.
\* Entries leave each queue in the order they entered it.
C27_DrainOnCompletion ==
    [][/\ \A i \in Nodes :
            ProcessedStep /\ i = node_index(state, hist'.event.node_num) =>
              LET node == state.nodes[i]
                  after == state'.nodes[i]
              IN  IF AcceptsRouting(i)
                  THEN /\ engine'.waiting_queue = Tail(engine.waiting_queue)
                       /\ after.processing = node.processing
                       /\ after.requests = node.requests
                       /\ Scheduled(engine'.queue, "RequestRouted", node.id,
                                    Head(engine.waiting_queue))
                       /\ Len(engine'.queue) = Len(engine.queue)
                  ELSE /\ engine'.waiting_queue = engine.waiting_queue
                       /\ after.processing = Released(i).processing + Drained(i)
                       /\ after.requests
                             = SubSeq(node.requests, Drained(i) + 1, Len(node.requests))
                       /\ \A j \in 1..Drained(i) :
                             Scheduled(engine'.queue, "RequestProcessed", node.id,
                                       node.requests[j])
                       /\ Len(engine'.queue) = Len(engine.queue) - 1 + Drained(i)
       /\ ArrivedStep \/ RoutedStep \/ ProcessedStep =>
            /\ FifoStep(engine.waiting_queue, engine'.waiting_queue)
            /\ \A i \in Nodes :
                  Stays(i) /\ FifoStep(state.nodes[i].requests, state'.nodes[i].requests)]_vars

\* a completion at node 0 of a world with two nodes has just handed its core
\* to the head of the shared routing queue
C27_Witness ==
    /\ upd.pc = "loop" /\ ~panicked
    /\ hist.event.kind = "RequestProcessed"
    /\ Len(state.nodes) > 1
    /\ \E i \in Nodes :
          /\ state.nodes[i].id = hist.event.node_num
          /\ state.nodes[i].processing = state.nodes[i].num_cores
          /\ \E k \in 1..Len(engine.queue) :
                /\ engine.queue[k].kind = "RequestRouted"
                /\ engine.queue[k].node_num = hist.event.node_num
                /\ engine.queue[k].timestamp
                      = hist.event.timestamp
                          + time_per_request_routing(state.nodes[i]) * engine.queue[k].amount

(***************************************************************************)
(* Cohorts created with trial duration 0.  The three effects that create a *)
(* cohort are applied by apply_card_effect to a game in progress and the   *)
(* updates that follow process the cohorts' arrivals.                      *)
(***************************************************************************)
ClientEffects ==
    {Effect("PublishService", "Super", MoneyZero, 0, 0),
     Effect("AddClients", "Base", MoneyZero, 0, 0),
     Effect("AddClientsWithPublicity", "Base", MoneyZero, 0, 8)}

\* a game with the Base tier published and some demand, at its start or
\* 6000 time units into it, with no cohort yet
WorldsClients ==
    {[WorldState_default EXCEPT
        !.time = time, !.demand = 4,
        !.service["Base"].private = FALSE,
        !.service["Super"].unlocked = TRUE,
        !.cards_used = UsedCards(<<"a0p">>)] : time \in {0, 6000}}

InitClients ==
    /\ scn = "clients"
    /\ \E st \in WorldsClients : Started(st, GameEngine_new)

ApplyCardEffect ==
    /\ MayAct
    /\ upd.pc = "idle" /\ ~panicked
    /\ \E effect \in ClientEffects :
          \E w \in apply_card_effect(World(state, engine), effect) :
              Commit(w, "action", [type |-> "CardEffect", effect |-> effect], NoEvent)
    /\ UNCHANGED upd

NextClients == ApplyCardEffect \/ BeginUpdate \/ ProcessEvent \/ EndUpdate

SpecClients == InitClients /\ [][NextClients]_vars

CohortIds(st) == {st.user_specs[k].id : k \in 1..Len(st.user_specs)}

\* the cohort of the Arrived event the step processes is live and stays, and
\* has as many arrivals pending after the step as before
Rearmed ==
    LET id == hist'.event.user_spec_id
    IN  /\ id \in CohortIds(state')
        /\ ArrivalsOf(engine'.queue, id) = ArrivalsOf(engine.queue, id)

ZeroTrialKept ==
    /\ [][/\ hist'.nacts = hist.nacts + 1
          /\ hist'.act.effect.e \in {"PublishService", "AddClientsWithPublicity"}
          => \A k \in 1..Len(state'.user_specs) :
                state'.user_specs[k].id \notin CohortIds(state) =>
                    /\ state'.user_specs[k].trial_time = 0
                    /\ is_paying(state'.user_specs[k], state'.time)]_vars
    /\ [][/\ ArrivedStep
          /\ \E k \in 1..Len(state.user_specs) :
                /\ state.user_specs[k].id = hist'.event.user_spec_id
                /\ state.user_specs[k].trial_time = 0
          => Rearmed]_vars

(***************************************************************************)
(* Events that refer to a cohort or a node that is gone.  process_event is *)
(* given events of a cohort that was removed while its requests were on    *)
(* their way (trial over, spam filter) and events that name a node id the  *)
(* world does not have.                                                    *)
(***************************************************************************)
GoneCohort == 2
GoneNode == 7

\* two nodes, the first with one Base job in flight; the Base cohort 1 is
\* live, cohort 2 is gone
WorldsStale ==
    {[WorldState_default EXCEPT
        !.nodes = <<[CloudNode_new(0) EXCEPT !.processing = 1,
                                             !.ram_usage = mem_required("Base")],
                    CloudNode_new(1)>>,
        !.can_buy_nodes = TRUE,
        !.routing_level = routing_level,
        !.demand = 4, !.service["Base"].private = FALSE,
        !.service["Base"].entitlement = millicents(5),
        !.user_specs = <<[id |-> 1, service |-> "Base", trial_time |-> 0, bad |-> FALSE]>>,
        !.cards_used = UsedCards(<<"a0p", "b1">>)] :
        routing_level \in {MainNode, NoRoutingCost}}

\* the completion of the job in flight, of the player, of the live cohort or
\* of the cohort that is gone
FirstEvents ==
    {[timestamp |-> 100, user_spec_id |-> id, amount |-> 1, service |-> "Base",
      bad |-> bad, kind |-> "RequestProcessed", node_num |-> 0,
      ram_required |-> mem_required("Base")] :
        <<id, bad>> \in {<<None, FALSE>>, <<1, FALSE>>, <<GoneCohort, FALSE>>,
                         <<GoneCohort, TRUE>>}}

\* an arrival of a live or of a gone cohort, and events that name node 7
SecondEvents ==
    {new_arrived(200, id, 1, "Base", bad) :
        <<id, bad>> \in {<<1, FALSE>>, <<GoneCohort, FALSE>>, <<GoneCohort, TRUE>>}}
    \cup {[timestamp |-> 200, user_spec_id |-> id, amount |-> 1, service |-> "Base",
           bad |-> FALSE, kind |-> kind, node_num |-> GoneNode,
           ram_required |-> IF kind = "RequestProcessed" THEN mem_required("Base") ELSE 0] :
            id \in {None, 1, GoneCohort}, kind \in {"RequestRouted", "RequestProcessed"}}

InitStale ==
    /\ scn = "stale"
    /\ \E st \in WorldsStale, first \in FirstEvents, second \in SecondEvents :
          Started(st, [GameEngine_new EXCEPT !.queue = <<first, second>>])

NextStale == BeginUpdate \/ ProcessEvent \/ EndUpdate

SpecStale == InitStale /\ [][NextStale]_vars

\* the event the step processes refers to a cohort the world does not have
StaleCohort ==
    /\ hist'.event.user_spec_id # None
    /\ hist'.event.user_spec_id \notin CohortIds(state)

\* the event the step processes refers to a node the world does not have
StaleNode ==
    /\ RoutedStep \/ ProcessedStep
    /\ node_index(state, hist'.event.node_num) = 0

\* an Arrived event is routed: passed to a node, put in the shared queue, or
\* dropped
Dispatched ==
    \/ \E i \in Nodes : Scheduled(engine'.queue, "RequestRouted", state.nodes[i].id,
                                  hist'.event)
    \/ Len(engine'.waiting_queue) = Len(engine.waiting_queue) + 1
    \/ state'.requests_dropped = state.requests_dropped + hist'.event.amount

\* the ops and the money a completion of `amount` requests of a tier adds
Credited(kind, amount, money) ==
    /\ state'.service[kind].total = state.service[kind].total + amount
    /\ state'.service[kind].available = state.service[kind].available + amount
    /\ state'.funds = MoneyPlus(state.funds, money)
    /\ state'.earned = MoneyPlus(state.earned, money)

StaleArrival ==
    ArrivedStep /\ StaleCohort =>
        /\ Dispatched
        /\ state'.user_specs = state.user_specs
        /\ ArrivalsOf(engine'.queue, hist'.event.user_spec_id)
              = ArrivalsOf(engine.queue, hist'.event.user_spec_id) - 1

StaleNodeIgnored ==
    StaleNode =>
        /\ state' = state
        /\ engine'.waiting_queue = engine.waiting_queue
        /\ Len(engine'.queue) = Len(engine.queue) - 1

\* C29 as stated: every Processed event of a cohort that is gone is credited
\* like a player request, its ops counted and the entitlement earned.
C29_StaleReferences_AsStated ==
    /\ [](~panicked)
    /\ [][/\ StaleArrival
          /\ ProcessedStep /\ StaleCohort /\ ~StaleNode =>
                /\ Credited(hist'.event.service, hist'.event.amount,
                            state.service[hist'.event.service].entitlement)
                /\ state'.requests_failed = state.requests_failed
          /\ StaleNodeIgnored]_vars

\* C29, amended: no event that refers to a cohort or a node that is gone
\* makes the engine abort.  An Arrived event of a gone cohort is routed like
\* any other and schedules no further arrival.  A Processed event of a gone
\* cohort that does not carry the malicious flag is credited like a player
\* request (ops counted, the entitlement earned); one that carries the flag
\* adds no ops and no money and counts as failed.  A Routed or Processed event
\* that names a node id the world does not have changes nothing.
C29_StaleReferences ==
    /\ [](~panicked)
    /\ [][/\ StaleArrival
          /\ ProcessedStep /\ StaleCohort /\ ~StaleNode =>
                IF hist'.event.bad
                THEN /\ Credited(hist'.event.service, 0, MoneyZero)
                     /\ state'.requests_failed
                           = state.requests_failed + hist'.event.amount
                ELSE /\ Credited(hist'.event.service, hist'.event.amount,
                                 state.service[hist'.event.service].entitlement)
                     /\ state'.requests_failed = state.requests_failed
          /\ StaleNodeIgnored]_vars

\* a completion of the gone cohort has just been credited like a player
\* request, and an event that names node 7 is next
C29_Witness ==
    /\ scn = "stale" /\ ~panicked
    /\ hist.event.kind = "RequestProcessed"
    /\ hist.event.node_num = 0
    /\ hist.event.user_spec_id = GoneCohort /\ ~hist.event.bad
    /\ state.service["Base"].total = 1 /\ state.service["Base"].available = 1
    /\ state.earned = millicents(5)
    /\ engine.queue # <<>>
    /\ Head(engine.queue).node_num = GoneNode

(***************************************************************************)
(* Levels and their tables                                                 *)
(***************************************************************************)
\* C30: whatever cards are redeemed through UseCard, in whatever order and
\* however many times, software_level and cache_level stay within
\* SOFTWARE_LEVELS and CACHE_LEVELS (at most 4), the electricity cost_level
\* stays at most 6, and no action or update aborts.
C30_LevelsInTables ==
    /\ [](/\ InTable(SOFTWARE_LEVELS, state.software_level)
          /\ InTable(CACHE_LEVELS, state.cache_level)
          /\ InTable(ELECTRICITY_COST_LEVELS, state.electricity.cost_level))
    /\ [][Applies({"UseCard"}) => ~panicked']_vars

\* the cache level alone stays in its table
CacheLevelInTable == InTable(CACHE_LEVELS, state.cache_level)

\* the software level alone stays in its table
SoftwareLevelInTable == InTable(SOFTWARE_LEVELS, state.software_level)

\* the electricity cost level alone stays in its table
CostLevelInTable == InTable(ELECTRICITY_COST_LEVELS, state.electricity.cost_level)

(***************************************************************************)
(* Order of processing over a whole run                                    *)
(***************************************************************************)
\* the step processes an event
EventStep ==
    hist'.arrived + hist'.routed + hist'.processed
        > hist.arrived + hist.routed + hist.processed

\* C31: over the whole run, pushes interleaved with pops, events are
\* processed in non-decreasing timestamp order: every pending event, pushed
\* by a handler, an action or a card effect, has a timestamp not smaller than
\* that of any event already processed (hist.last), and the timestamp of
\* every processed event lies between state.time and the time of the update
\* call that processes it.
C31_ProcessingOrder ==
    /\ [](\A k \in 1..Len(engine.queue) : engine.queue[k].timestamp >= hist.last)
    /\ [][EventStep =>
                /\ hist'.event.timestamp >= hist.last
                /\ hist'.event.timestamp >= state.time
                /\ hist'.event.timestamp <= upd.time]_vars

\* events were processed, the player clicked twice in between, and events
\* pushed since are pending while an update is under way
C31_Witness ==
    /\ upd.pc = "loop" /\ ~panicked
    /\ hist.last > 0
    /\ hist.nclicks >= 2
    /\ hist.processed >= 1
    /\ hist.event.kind = "RequestRouted"
    /\ engine.queue # <<>>
    /\ state.time > 0

(***************************************************************************)
(* Duration of a drained job                                               *)
(***************************************************************************)
\* a Processed event for the request is scheduled on the node, `duration`
\* after the completion the step processes
ScheduledAfter(q, node, request, duration) ==
    \E k \in 1..Len(q) :
        /\ q[k].kind = "RequestProcessed"
        /\ q[k].node_num = node.id
        /\ q[k].user_spec_id = request.user_spec_id
        /\ q[k].amount = request.amount
        /\ q[k].service = request.service
        /\ q[k].ram_required = request.mem_required
        /\ q[k].timestamp = hist'.event.timestamp + duration

\* the step is a completion at node i that starts entries of the node's FIFO
Drains(i) ==
    /\ ProcessedStep
    /\ i = node_index(state, hist'.event.node_num)
    /\ ~AcceptsRouting(i)
    /\ Drained(i) > 0

\* C32: a request drained from a node's wait FIFO is scheduled
\* time_per_request(its own tier, software level) * amount after the
\* completion, whatever the tier of the job that completed.
C32_DrainedDuration ==
    [][\A i \in Nodes :
          Drains(i) =>
            \A j \in 1..Drained(i) :
                LET request == state.nodes[i].requests[j]
                IN  ScheduledAfter(engine'.queue, state.nodes[i], request,
                        time_per_request(state.nodes[i], request.service,
                                         state.software_level) * request.amount)]_vars

\* the same for the drained requests of the tier of the completed job
DrainedDurationSameTier ==
    [][\A i \in Nodes :
          Drains(i) =>
            \A j \in 1..Drained(i) :
                LET request == state.nodes[i].requests[j]
                IN  request.service = hist'.event.service =>
                        ScheduledAfter(engine'.queue, state.nodes[i], request,
                            time_per_request(state.nodes[i], request.service,
                                             state.software_level) * request.amount)]_vars

(***************************************************************************)
(* Lookup by id                                                            *)
(***************************************************************************)
\* slice::binary_search_by_key on the ids of seq, between the 0-based
\* positions lo (included) and hi (excluded): the 1-based position found, or 0
RECURSIVE binary_search_by_key(_, _, _, _)
binary_search_by_key(seq, id, lo, hi) ==
    IF lo >= hi THEN 0
    ELSE LET mid == lo + (hi - lo) \div 2
         IN  IF seq[mid + 1].id = id THEN mid + 1
             ELSE IF seq[mid + 1].id < id
                  THEN binary_search_by_key(seq, id, mid + 1, hi)
                  ELSE binary_search_by_key(seq, id, lo, mid)

StrictlyAscending(seq) ==
    \A i, j \in 1..Len(seq) : i < j => seq[i].id < seq[j].id

Found(seq) ==
    \A i \in 1..Len(seq) : binary_search_by_key(seq, seq[i].id, 0, Len(seq)) = i

\* C33: in every reachable state the node list and the cohort list are in
\* strictly ascending id order, without duplicates, and the binary search by
\* id finds every node and every cohort.
C33_SortedById ==
    /\ StrictlyAscending(state.nodes) /\ Found(state.nodes)
    /\ StrictlyAscending(state.user_specs) /\ Found(state.user_specs)

\* the player has bought nodes
C33_Witness ==
    /\ ~panicked
    /\ Len(state.nodes) >= 3
    /\ hist.act.type \in {"AddNode", "AddUpgradedNode", "AddRack"}
    /\ state.nodes[Len(state.nodes)].id = Len(state.nodes) - 1

(***************************************************************************)
(* Arrival streams                                                         *)
(***************************************************************************)
\* C34: each live cohort has exactly one Arrived event pending, in every
\* reachable state, also after other cohorts were retired or purged and new
\* cohorts were added.
C34_OneArrivalStream ==
    ~panicked => \A id \in CohortIds(state) : ArrivalsOf(engine.queue, id) = 1

\* the same as long as no cohort was added after a purge
OneArrivalStreamUntilReuse ==
    ~panicked /\ (hist.bad_ids \subseteq BadIds(state)) =>
        \A id \in CohortIds(state) : ArrivalsOf(engine.queue, id) = 1

(***************************************************************************)
(* Termination of update.  The loop of update runs without interruption:   *)
(* once entered, its turns and its end are taken (weak fairness).          *)
(***************************************************************************)
\* the scenarios followed under fairness (the two largest are left out)
LiveScenarios == Scenarios \ {"fifo", "load"}

InitLive ==
    /\ scn \in LiveScenarios
    /\ \E st \in Worlds(scn) : Started(st, Pending(scn))

SpecLive == InitLive /\ [][Next]_vars /\ WF_vars(ProcessEvent) /\ WF_vars(EndUpdate)

\* update has returned: the world is at the time of the call and every
\* pending event is later
Returned(time) ==
    /\ state'.time = time
    /\ \A k \in 1..Len(engine'.queue) : engine'.queue[k].timestamp > time

\* C35: every call update(time) with time >= state.time comes to its end
\* after finitely many events; when it returns state.time = time and every
\* event left in the queue has a timestamp greater than time.
C35_UpdateTerminates ==
    /\ (upd.pc # "idle" /\ ~panicked) ~> (upd.pc = "idle" \/ panicked)
    /\ [][upd.pc # "idle" /\ upd'.pc = "idle" => Returned(upd.time)]_vars
    /\ [](upd.pc # "idle" => upd.time >= state.time)

\* an update that processed events has returned and left later events pending
C35_Witness ==
    /\ upd.pc = "idle" /\ ~panicked
    /\ hist.op = "update"
    /\ hist.arrived >= 2 /\ hist.processed >= 1
    /\ engine.queue # <<>>
    /\ \A k \in 1..Len(engine.queue) : engine.queue[k].timestamp > state.time

(***************************************************************************)
(* Core slots                                                              *)
(***************************************************************************)
\* the pending events of a kind that name the node
PendingOn(kind, id) ==
    Cardinality({k \in 1..Len(engine.queue) :
                    engine.queue[k].kind = kind /\ engine.queue[k].node_num = id})

\* the pending Routed events that hold a routing slot on the node: all of
\* them while requests need routing, none otherwise
RoutingSlots(id) == IF NeedsRouting THEN PendingOn("RequestRouted", id) ELSE 0

\* C36: no core slot is leaked: each node's processing count is the number of
\* pending Routed events that hold a routing slot on it plus the number of
\* pending Processed events on it, so it lies between the pending Processed
\* events and the pending Routed and Processed events on the node; once the
\* event queue is empty every processing count is 0.
C36_NoSlotLeak ==
    ~panicked =>
        /\ \A i \in Nodes :
              /\ state.nodes[i].processing >= PendingOn("RequestProcessed", state.nodes[i].id)
              /\ state.nodes[i].processing
                    <= PendingOn("RequestRouted", state.nodes[i].id)
                         + PendingOn("RequestProcessed", state.nodes[i].id)
        /\ engine.queue = <<>> => \A i \in Nodes : state.nodes[i].processing = 0

\* the exact count while the routing level is the one the run started with
NoSlotLeakSameRouting ==
    ~panicked /\ (\A k \in 1..Len(state.cards_used) : state.cards_used[k].id \notin {"n2", "n6"}) =>
        /\ \A i \in Nodes :
              state.nodes[i].processing
                  = RoutingSlots(state.nodes[i].id)
                      + PendingOn("RequestProcessed", state.nodes[i].id)
        /\ engine.queue = <<>> => \A i \in Nodes : state.nodes[i].processing = 0

(***************************************************************************)
(* Memory                                                                  *)
(***************************************************************************)
\* the pending Processed events on the node
ProcessedOn(id) ==
    SelectSeq(engine.queue,
              LAMBDA e : e.kind = "RequestProcessed" /\ e.node_num = id)

\* the memory the node's reserve, its waiting requests and the requests
\* being processed on it account for
MemoryHeld(node) ==
    node.ram_reserved + SumField(node.requests, "mem_required")
        + SumField(ProcessedOn(node.id), "ram_required")

\* C37: no memory is leaked: each node's ram_usage is its ram_reserved plus
\* the mem_required of every entry of its wait FIFO plus the ram_required of
\* every pending Processed event on it.
C37_NoMemoryLeak ==
    ~panicked => \A i \in Nodes : state.nodes[i].ram_usage = MemoryHeld(state.nodes[i])

\* requests were dropped, and a node holds memory for its reserve, for a
\* waiting request and for a request being processed
C37_Witness ==
    /\ ~panicked
    /\ state.requests_dropped > 0
    /\ \E i \in Nodes :
          /\ state.nodes[i].requests # <<>>
          /\ ProcessedOn(state.nodes[i].id) # <<>>
          /\ state.nodes[i].ram_reserved > 0

(***************************************************************************)
(* The shared routing wait queue                                           *)
(***************************************************************************)
\* C38: every request placed on the shared routing wait queue is eventually
\* taken off it and routed, also in a closed run in which no further
\* requests arrive: a run whose event queue has drained, in which no update
\* processes anything any more, has no request left on the wait queue.
C38_WaitingRouted == ~panicked /\ engine.queue = <<>> => engine.waiting_queue = <<>>

(***************************************************************************)
(* Cumulative spend                                                        *)
(***************************************************************************)
TakesMoney == Purchases \cup {"Payment", "PayElectricityBill"}

\* what an AddFunds card that is redeemed adds to the funds
FundsAddedBy(act) ==
    IF act.type = "UseCard" /\ ~MustReject(act)
    THEN FundsAdded(ALL_CARDS[card_index(act.id)])
    ELSE MoneyZero

\* the step leaves funds + spent as it was, but for the funds of an AddFunds card
SpentMirrors ==
    MoneyPlus(state'.funds, state'.spent)
        = MoneyPlus(MoneyPlus(state.funds, state.spent), FundsAddedBy(hist'.act))

\* C39: for every accepted action that takes money (Payment,
\* PayElectricityBill, UpgradeCpu, UpgradeRam, AddNode, AddUpgradedNode,
\* AddRack, UseCard) spent grows by exactly the amount by which the action's
\* cost reduces funds: funds + spent changes only by the funds of an AddFunds
\* effect.
C39_SpentMirrorsFunds == [][Applies(TakesMoney) /\ ~panicked' => SpentMirrors]_vars

\* the same for the actions other than the purchase of a node
SpentMirrorsButNodes ==
    [][Applies(TakesMoney \ {"AddNode", "AddUpgradedNode", "AddRack"}) /\ ~panicked'
          => SpentMirrors]_vars

(***************************************************************************)
(* Redeeming a card again                                                  *)
(***************************************************************************)
\* no id is recorded twice in cards_used
UsedOnce ==
    \A j, k \in 1..Len(state.cards_used) :
        state.cards_used[j].id = state.cards_used[k].id => j = k

\* WorldState::is_card_used: some entry of cards_used has the id
is_card_used(st, id) == \E k \in 1..Len(st.cards_used) : st.cards_used[k].id = id

\* the card of the action is recorded in cards_used
AlreadyUsed(act) == is_card_used(state, act.id)

\* C40: a card is redeemed at most once: UseCard with the id of a card that
\* is recorded in cards_used is rejected and leaves the WorldState as it was,
\* and cards_used never holds the same id twice.
C40_RedeemedOnce ==
    /\ []UsedOnce
    /\ [][Applies({"UseCard"}) /\ AlreadyUsed(hist'.act) => state' = state]_vars

\* the first redemption of a card records its id once
FirstRedemptionRecorded ==
    [][Applies({"UseCard"}) /\ ~AlreadyUsed(hist'.act) /\ UsedOnce => UsedOnce']_vars

=============================================================================
